---- MODULE Spec2Model ----
(***************************************************************************)
(* A model of the request layer (appcenter/derived_client.py) and of the   *)
(* chunked upload pipeline (appcenter/versions.py) of appcenter-rest-python.*)
(*                                                                         *)
(* Texts are modelled as sequences of fragments: `check in str(e)` is true *)
(* when one fragment of str(e) is the text looked for.                     *)
(***************************************************************************)
EXTENDS Integers, Sequences, FiniteSets, TLC

VARIABLES
    tPc,        \* position of the running Transport call
    tMethod,    \* the Transport method that was called
    tUrl,       \* the url it was called with
    tAttempt,   \* tenacity's attempt_number: HTTP requests issued by this call
    tHist,      \* the outcome of each attempt of this call, in order
    tWaits,     \* the sleeps tenacity made during this call, in order
    tResult,    \* what the call handed to its caller (a response or an error)
    tQuery,     \* the query parameters of the url it was called with
    tData,      \* the data it was called with
    tSent,      \* the HTTP requests of this call, in order, as the HTTP library got them
    token,      \* the client's token
    session,    \* the client's requests.Session: its headers
    file_name,  \* os.path.basename(binary_path), as its tokens
    release_update_request, \* the ReleaseUpdateRequest of update_release
    answers,    \* what the network can do to a request in this run
    statuses,   \* the upload statuses the status resource can report in this run
    audit,      \* whether this run keeps the per-chunk accounts below
    path,       \* what is at the local path to upload: a file, a directory, nothing
    pc,         \* position of upload_build
    attempt,    \* the `attempt` loop variable of the running step function
    sleeping,   \* the step function is in its time.sleep(10)
    sleeps,     \* the sleeps of the running step function, in order
    create_release_upload_response,
    upload_metadata_response,
    binary_file,        \* the open file: its bytes and the read position
    chunk_numbers,      \* upload_binary: the chunk numbers still to read
    unhandled_chunks,   \* upload_binary: the retry queue
    current,            \* the chunk direct_upload_chunk is uploading, and the pass
    upload_end_response,
    result,             \* what upload_build handed to its caller
    \* history of the run
    opsLog,     \* the network operations issued, runs of one kind counted once
    stepsDone,  \* the steps that have completed
    posts,      \* per chunk number: upload_chunk POST requests issued
    retryCalls, \* per chunk number: uploads started from the retry queue
    firstFailed,\* chunk numbers queued by the first pass
    uploaded,   \* chunk numbers with a successful _upload_chunk call
    finishCalls,\* calls of _mark_upload_finished
    finishPosts,\* finish POST requests issued
    served,     \* per chunk number and pass: how its POSTs were answered
    ubResult,   \* how upload_binary ended
    waitLog,    \* _wait_for_upload: its GET requests, what each poll read, its sleeps
    stepLog,    \* how each HTTP request of get_upload_url, commit_upload, update_release was answered
    chain,      \* the pages the server holds for a listing
    org_name,   \* the organization of the listing
    app_name,   \* the app of the listing
    gPc,        \* position of the generator of a listing
    request_url,\* its request_url
    page,       \* its `page` counter
    error_groups,   \* the page it has deserialized
    pending,    \* the items of that page `yield from` has not yielded yet
    gResult,    \* the exception that ended the generator
    pagerLog,   \* the consumer's next() calls, the GET requests, the items handed over
    aPc,        \* position of set_annotation
    state,      \* its `state`: the argument, then the state read from the group
    aResult,    \* how set_annotation ended
    annotationLog   \* the call, its HTTP requests and the group it read, in order

tvars == <<tPc, tMethod, tUrl, tAttempt, tHist, tWaits, tResult, tQuery, tData, tSent>>

\* the state of upload_build
uvars == <<pc, attempt, sleeping, sleeps, create_release_upload_response,
           upload_metadata_response, binary_file, chunk_numbers, unhandled_chunks,
           current, upload_end_response, result>>

\* the history variables
hvars == <<opsLog, stepsDone, posts, retryCalls, firstFailed, uploaded,
           finishCalls, finishPosts, served, ubResult, waitLog>>

\* the setting of a run, fixed by its initial state
setting == <<answers, statuses, audit, path, chain, org_name, app_name, token, session,
             file_name, release_update_request>>

\* the state of set_annotation
avars == <<aPc, state, aResult, annotationLog>>

\* what the upload, the listings and a Transport call leave as it is
env == <<setting, avars, stepLog>>

\* the state of a listing generator
pvars == <<gPc, request_url, page, error_groups, pending, gResult, pagerLog>>

vars == <<tvars, env, uvars, hvars, pvars>>

----------------------------------------------------------------------------
(* Values *)

None == [type |-> "None"]

\* derived_client.py:104-109
exception_checks ==
    << "Operation timed out",
       "Connection aborted.",
       "bad handshake: ",
       "Failed to establish a new connection" >>

Methods == {"get", "patch", "post", "post_files", "delete", "azure_blob_upload"}

\* Urls a caller may pass; the second one carries a signature text in its path.
Urls == {"https://api.appcenter.ms/v0.1/apps/o/a", "https://h/Connection aborted."}

Statuses == {200, 202, 204, 404, 500}

\* How a response body reads: a JSON object with code and message, the JSON
\* object the endpoint documents as its answer, or no JSON at all.
Formats == {"error_json", "payload_json", "not_json"}

\* The text a response body carries (the message of an error_json body).
BodyTexts == {"body", "Operation timed out"}

\* The messages of the exceptions the HTTP library raises.
ExceptionTexts ==
    {exception_checks[i] : i \in DOMAIN exception_checks} \cup {"Invalid URL"}

\* What one HTTP request can do: answer, or raise.
ServerAnswers == [kind : {"response"}, status : Statuses, format : Formats, text : BodyTexts]
ServerFailures == [kind : {"exception"}, text : ExceptionTexts]
AllOutcomes == ServerAnswers \cup ServerFailures

Response(method, url, o) ==
    [type |-> "Response", method |-> method, url |-> url,
     status_code |-> o.status, format |-> o.format, text |-> o.text]

RequestException(o) == [type |-> "RequestException", text |-> o.text]

\* requests.Response.ok: no 4xx or 5xx status
Ok(response) == response.status_code < 400

----------------------------------------------------------------------------
(* Errors: derived_client.py:20-115 *)

\* AppCenterHTTPError: the decoded body of an error response
AppCenterHTTPError(code, message) == [code |-> code, message |-> message]

AppCenterHTTPException(response) ==
    [type |-> "AppCenterHTTPException", response |-> response]

AppCenterDecodedHTTPException(response, error) ==
    [type |-> "AppCenterDecodedHTTPException", response |-> response, error |-> error]

Returned(value) == [failed |-> FALSE, value |-> value]
Raised(exception) == [failed |-> TRUE, value |-> exception]

JSONDecodeError == [type |-> "JSONDecodeError"]
DeserializeException == [type |-> "DeserializeException"]

\* response.json(): the parsed body, or the exception of a body that is no JSON
json(response) ==
    IF response.format = "not_json" THEN Raised(JSONDecodeError)
    ELSE Returned([format |-> response.format, text |-> response.text])

\* deserialize.deserialize(AppCenterHTTPError, value): raises on a value
\* that has no code and message
deserialize_AppCenterHTTPError(value) ==
    IF value.format = "error_json"
    THEN Returned(AppCenterHTTPError("Error", value.text))
    ELSE Raised(DeserializeException)

\* mutant: the body is never decoded
create_exception_undecoded(response) == AppCenterHTTPException(response)

\* try: ... except Exception: return AppCenterHTTPException(response)
create_exception(response) ==
    LET response_json == json(response) IN
    IF response_json.failed THEN AppCenterHTTPException(response)
    ELSE LET error == deserialize_AppCenterHTTPError(response_json.value) IN
         IF error.failed THEN AppCenterHTTPException(response)
         ELSE AppCenterDecodedHTTPException(response, error.value)

\* response.text: the raw body
ResponseText(response) ==
    IF response.format = "error_json" THEN <<"code", "Error", "message", response.text>>
    ELSE <<response.text>>

\* response.request.url, as the fragments it is made of
UrlText(url) ==
    IF url = "https://h/Connection aborted." THEN <<"https://h/", "Connection aborted.">>
    ELSE <<url>>

\* str(exception), as the fragments it is made of
Str(exception) ==
    CASE exception.type = "AppCenterHTTPException" ->
            <<"<method=", exception.response.method, "url=">>
            \o UrlText(exception.response.url)
            \o <<"status_code=">> \o ResponseText(exception.response)
      [] exception.type = "AppCenterDecodedHTTPException" ->
            <<"method=", exception.response.method, "url=">>
            \o UrlText(exception.response.url)
            \o <<"status_code=", "<code=", exception.error.code,
                 "message=", exception.error.message>>
      [] OTHER -> <<exception.text>>

\* check in str(exception)
Contains(text, check) == \E j \in DOMAIN text : text[j] = check

\* mutant: only what the HTTP library raised is looked at
_is_connection_failure_untyped(exception) ==
    /\ exception.type = "RequestException"
    /\ \E i \in DOMAIN exception_checks : exception.text = exception_checks[i]

_is_connection_failure(exception) ==
    \E i \in DOMAIN exception_checks : Contains(Str(exception), exception_checks[i])

----------------------------------------------------------------------------
(* The Transport methods: one execution of the method body, given what the *)
(* HTTP request did.  The result is the attempt's outcome as tenacity sees *)
(* it: a returned value, or a raised exception.                            *)

get(url, o) ==
    IF o.kind = "exception" THEN Raised(RequestException(o))
    ELSE LET response == Response("GET", url, o) IN
         IF response.status_code # 200
         THEN Raised(create_exception(response))
         ELSE Returned(response)

patch(url, o) ==
    IF o.kind = "exception" THEN Raised(RequestException(o))
    ELSE LET response == Response("PATCH", url, o) IN
         IF response.status_code < 200 \/ response.status_code >= 300
         THEN Raised(create_exception(response))
         ELSE Returned(response)

post(url, o) ==
    IF o.kind = "exception" THEN Raised(RequestException(o))
    ELSE LET response == Response("POST", url, o) IN
         IF response.status_code < 200 \/ response.status_code >= 300
         THEN Raised(create_exception(response))
         ELSE Returned(response)

post_files(url, o) ==
    IF o.kind = "exception" THEN Raised(RequestException(o))
    ELSE LET response == Response("POST", url, o) IN
         IF response.status_code < 200 \/ response.status_code >= 300
         THEN Raised(create_exception(response))
         ELSE Returned(response)

delete(url, o) ==
    IF o.kind = "exception" THEN Raised(RequestException(o))
    ELSE LET response == Response("DELETE", url, o) IN
         IF response.status_code < 200 \/ response.status_code >= 300
         THEN Raised(create_exception(response))
         ELSE Returned(response)

azure_blob_upload(url, o) ==
    IF o.kind = "exception" THEN Raised(RequestException(o))
    ELSE LET response == Response("PUT", url, o) IN
         IF response.status_code < 200 \/ response.status_code >= 300
         THEN Raised(create_exception(response))
         ELSE Returned(response)

\* versions.py calls self.post_raw_data, which derived_client.py does not
\* define: modelled as the Transport method for raw byte bodies.
post_raw_data(url, o) ==
    IF o.kind = "exception" THEN Raised(RequestException(o))
    ELSE LET response == Response("POST", url, o) IN
         IF response.status_code < 200 \/ response.status_code >= 300
         THEN Raised(create_exception(response))
         ELSE Returned(response)

\* crashes.py calls self.http_get, self.http_post and self.http_patch, which
\* derived_client.py does not define: modelled as the Transport of the
\* specification, which returns every response with a status in [200,300).
http_get(url, o) ==
    IF o.kind = "exception" THEN Raised(RequestException(o))
    ELSE LET response == Response("GET", url, o) IN
         IF response.status_code < 200 \/ response.status_code >= 300
         THEN Raised(create_exception(response))
         ELSE Returned(response)

http_post(url, o) ==
    IF o.kind = "exception" THEN Raised(RequestException(o))
    ELSE LET response == Response("POST", url, o) IN
         IF response.status_code < 200 \/ response.status_code >= 300
         THEN Raised(create_exception(response))
         ELSE Returned(response)

http_patch(url, o) ==
    IF o.kind = "exception" THEN Raised(RequestException(o))
    ELSE LET response == Response("PATCH", url, o) IN
         IF response.status_code < 200 \/ response.status_code >= 300
         THEN Raised(create_exception(response))
         ELSE Returned(response)

MethodBody(method, url, o) ==
    CASE method = "get" -> get(url, o)
      [] method = "patch" -> patch(url, o)
      [] method = "post" -> post(url, o)
      [] method = "post_files" -> post_files(url, o)
      [] method = "delete" -> delete(url, o)
      [] method = "azure_blob_upload" -> azure_blob_upload(url, o)
      [] method = "post_raw_data" -> post_raw_data(url, o)
      [] method = "http_get" -> http_get(url, o)
      [] method = "http_post" -> http_post(url, o)
      [] method = "http_patch" -> http_patch(url, o)

----------------------------------------------------------------------------
(* The HTTP request each method makes.  A dict is a function of its keys.  *)

EmptyDict == <<>>

\* dict[key] = value
Put(dict, key, value) ==
    [k \in DOMAIN dict \cup {key} |-> IF k = key THEN value ELSE dict[k]]

\* dict.update(other)
Update(dict, other) ==
    [k \in DOMAIN dict \cup DOMAIN other |-> IF k \in DOMAIN other THEN other[k] ELSE dict[k]]

\* the tokens a client may be made with
Tokens == {"token-1", "token-2"}

\* requests.Session(): the headers of a new session
DefaultHeaders == Put(EmptyDict, "User-Agent", "python-requests")

\* mutant: the token is kept, the session is left as it was made
__init___bare(tok) ==
    /\ token = tok
    /\ session = [headers |-> DefaultHeaders]

\* AppCenterDerivedClient.__init__: derived_client.py:130-134
__init__(tok) ==
    /\ token = tok
    /\ session = [headers |-> Update(DefaultHeaders, Put(EmptyDict, "X-API-Token", tok))]

ContentTypeJson == Put(EmptyDict, "Content-Type", "application/json")

\* headers={"Content-Type": "application/octet-stream", "x-ms-blob-type": "BlockBlob"}
AzureHeaders ==
    Put(Put(EmptyDict, "Content-Type", "application/octet-stream"), "x-ms-blob-type", "BlockBlob")

\* self.session.<verb>(url, headers=headers, ...): the session's headers,
\* then those of the call
session_request(verb, url, query, headers, body) ==
    [method |-> verb, url |-> url, query |-> query,
     headers |-> Update(session.headers, headers), body |-> body]

\* requests.put(url, headers=headers, ...): no session
requests_request(verb, url, query, headers, body) ==
    [method |-> verb, url |-> url, query |-> query, headers |-> headers, body |-> body]

\* the request a method's body hands to the HTTP library
HttpRequest(method, url, query, data) ==
    CASE method = "get" -> session_request("GET", url, query, EmptyDict, None)
      [] method = "patch" -> session_request("PATCH", url, query, ContentTypeJson, data)
      [] method = "post" -> session_request("POST", url, query, ContentTypeJson, data)
      [] method = "post_files" -> session_request("POST", url, query, EmptyDict, data)
      [] method = "delete" -> session_request("DELETE", url, query, EmptyDict, None)
      [] method = "azure_blob_upload" ->
            requests_request("PUT", url, query, AzureHeaders, data)
      [] method = "post_raw_data" -> session_request("POST", url, query, EmptyDict, data)
      [] method = "http_get" -> session_request("GET", url, query, EmptyDict, None)
      [] method = "http_post" -> session_request("POST", url, query, ContentTypeJson, data)
      [] method = "http_patch" -> session_request("PATCH", url, query, ContentTypeJson, data)

----------------------------------------------------------------------------
(* The @retry decorator of each method (tenacity) *)

\* mutant: the call gives up one attempt early
stop_after_attempt_early == 3 - 1

stop_after_attempt == 3
wait_fixed == 10

retry_if_exception(outcome) ==
    outcome.failed /\ _is_connection_failure(outcome.value)

\* retry_if_result(lambda response: response.status_code == 202)
retry_if_result(outcome) ==
    ~outcome.failed /\ outcome.value.status_code = 202

\* retry=...: get retries on either condition, the other methods on the first
RetryCondition(method, outcome) ==
    IF method \in {"get", "http_get"}
    THEN retry_if_exception(outcome) \/ retry_if_result(outcome)
    ELSE retry_if_exception(outcome)

\* What tenacity raises when the attempts are used up (reraise is not set)
RetryError(outcome) == [type |-> "RetryError", last_attempt |-> outcome]

\* A caller calls a Transport method with a url (its path and its query) and
\* the method's data, if it takes any.
TransportRequest(method, url, query, data) ==
    /\ tPc = "idle"
    /\ tPc' = "request"
    /\ tMethod' = method
    /\ tUrl' = url
    /\ tQuery' = query
    /\ tData' = data
    /\ tAttempt' = 0
    /\ tHist' = <<>>
    /\ tSent' = <<>>
    /\ tWaits' = <<>>
    /\ tResult' = None

\* A call with a url that has no query, and no data
TransportCall(method, url) == TransportRequest(method, url, EmptyDict, None)

\* One attempt: the method body runs once, then tenacity decides.
AttemptStep ==
    /\ tPc = "request"
    /\ \E o \in answers :
        LET outcome == MethodBody(tMethod, tUrl, o)
            n == tAttempt + 1
        IN  /\ tAttempt' = n
            /\ tHist' = Append(tHist, o)
            /\ tSent' = Append(tSent, HttpRequest(tMethod, tUrl, tQuery, tData))
            /\ IF ~RetryCondition(tMethod, outcome)
               THEN /\ tPc' = IF outcome.failed THEN "raised" ELSE "returned"
                    /\ tResult' = outcome.value
               ELSE IF n >= stop_after_attempt
               THEN /\ tPc' = "raised"
                    /\ tResult' = RetryError(outcome)
               ELSE /\ tPc' = "wait"
                    /\ tResult' = None
    /\ UNCHANGED <<tMethod, tUrl, tQuery, tData, tWaits>>

\* wait=wait_fixed(10): the sleep between two attempts
Wait ==
    /\ tPc = "wait"
    /\ tWaits' = Append(tWaits, wait_fixed)
    /\ tPc' = "request"
    /\ UNCHANGED <<tMethod, tUrl, tQuery, tData, tAttempt, tHist, tSent, tResult>>
    /\ UNCHANGED <<env, pvars, uvars, hvars>>

TransportIdle ==
    /\ tPc = "idle"
    /\ tMethod = "get"
    /\ tUrl = "https://api.appcenter.ms/v0.1/apps/o/a"
    /\ tAttempt = 0
    /\ tQuery = EmptyDict
    /\ tData = None
    /\ tHist = <<>>
    /\ tSent = <<>>
    /\ tWaits = <<>>
    /\ tResult = None

----------------------------------------------------------------------------
(* Listings: the generators get_error_groups and errors_in_group           *)
(* (crashes.py).  A link is a text, modelled as the sequence of its        *)
(* tokens: a token is the character "/" or "?", or a run of other          *)
(* characters.                                                             *)

MaxPages == 2

\* how many items a page may hold
ItemCounts == {0, 1, 2}

\* the items of page k: each item is named by its page and its place
Items(k, n) == [j \in 1..n |-> <<k, j>>]

\* appcenter.constants.API_BASE_URL
API_BASE_URL == "https://api.appcenter.ms"

\* f"{org_name}/{app_name}"
OrgApp(org, app) == <<org, "/", app>>

\* the part of a link that tells the server which page is asked for
PageTokens == <<"page=1", "page=2", "page=3", "page=4", "page=5">>

\* a value that may be None
Some(value) == [type |-> "Some", value |-> value]

\* the nextLink values the server gives for page k: without and with the
\* organization and app in the path
NextLinks(k) ==
    { <<"/", "api", "/", "v0.1", "/", "apps", "/", "/", "errors", "/", "errorGroups", "?",
        PageTokens[k]>>,
      <<"/", "api", "/", "v0.1", "/", "apps", "/">> \o OrgApp(org_name, app_name)
        \o <<"/", "errors", "/", "errorGroups", "?", PageTokens[k]>> }

\* ErrorGroups, HandledErrors: nextLink and the list of items, either may be None
Pages(k, last) ==
    [nextLink : IF last THEN {None} ELSE {Some(link) : link \in NextLinks(k + 1)},
     errorGroups : {Some(Items(k, n)) : n \in ItemCounts} \cup {None}]

\* the listings a server may hold: page k links to page k + 1, the last to none
Chains ==
    UNION { { c \in [1..n -> UNION {Pages(k, last) : k \in 1..n, last \in BOOLEAN}] :
                \A k \in 1..n : c[k] \in Pages(k, k = n) } : n \in 1..MaxPages }

\* the page the server answers a url with
PageOf(url) ==
    IF \E k \in DOMAIN PageTokens : \E j \in DOMAIN url : url[j] = PageTokens[k]
    THEN CHOOSE k \in DOMAIN PageTokens : \E j \in DOMAIN url : url[j] = PageTokens[k]
    ELSE 1

\* text[i:].startswith(old)
StartsAt(text, old, i) ==
    /\ i + Len(old) - 1 <= Len(text)
    /\ SubSeq(text, i, i + Len(old) - 1) = old

\* old in text
In(old, text) == \E i \in 1..Len(text) : StartsAt(text, old, i)

\* text.replace(old, new, 1)
Replace1(text, old, new) ==
    IF In(old, text)
    THEN LET j == CHOOSE i \in 1..Len(text) :
                    StartsAt(text, old, i) /\ \A h \in 1..(i - 1) : ~StartsAt(text, old, h)
         IN  SubSeq(text, 1, j - 1) \o new \o SubSeq(text, j + Len(old), Len(text))
    ELSE text

\* mutant: the "//" replacement is made whatever the link holds
_next_link_polished_unconditional(next_link, org, app) ==
    Replace1(Replace1(next_link, <<"/", "/">>, <<"/", org, "/", app, "/">>), <<"/", "api">>, <<>>)

\* crashes.py:428-445
_next_link_polished(next_link, org, app) ==
    LET repaired == IF ~In(OrgApp(org, app), next_link)
                    THEN Replace1(next_link, <<"/", "/">>, <<"/", org, "/", app, "/">>)
                    ELSE next_link
    IN  Replace1(repaired, <<"/", "api">>, <<>>)

PagerIdle ==
    /\ gPc = "none"
    /\ request_url = <<>>
    /\ page = 0
    /\ error_groups = None
    /\ pending = <<>>
    /\ gResult = None
    /\ pagerLog = <<>>

AnnotationIdle ==
    /\ aPc = "idle"
    /\ state = None
    /\ aResult = None
    /\ annotationLog = <<>>

\* get_error_groups(...) is called: the generator is made, its body has not
\* started (crashes.py:141-201)
get_error_groups ==
    /\ gPc = "none"
    /\ gPc' = "created"
    /\ request_url' = <<API_BASE_URL, "/", "v0.1", "/", "apps", "/">>
                            \o OrgApp(org_name, app_name)
                            \o <<"/", "errors", "/", "errorGroups", "?">>
    /\ UNCHANGED <<page, error_groups, pending, gResult, pagerLog>>
    /\ UNCHANGED <<tvars, env, uvars, hvars>>

\* errors_in_group(...) is called (crashes.py:225-268)
errors_in_group ==
    /\ gPc = "none"
    /\ gPc' = "created"
    /\ request_url' = <<API_BASE_URL, "/", "v0.1", "/", "apps", "/">>
                            \o OrgApp(org_name, app_name)
                            \o <<"/", "errors", "/", "errorGroups", "/", "id", "/",
                                 "errors", "?">>
    /\ UNCHANGED <<page, error_groups, pending, gResult, pagerLog>>
    /\ UNCHANGED <<tvars, env, uvars, hvars>>

\* mutant: the nextLink is not followed
AfterPage_stop(data) ==
    /\ gPc' = "finished"
    /\ UNCHANGED request_url

\* after `yield from`: crashes.py:214-219
AfterPage(data) ==
    IF data.nextLink = None
    THEN /\ gPc' = "finished"
         /\ UNCHANGED request_url
    ELSE /\ gPc' = "fetch"
         /\ request_url' = <<API_BASE_URL>> \o _next_link_polished(data.nextLink.value,
                                                                   org_name, app_name)

\* mutant: the page is left with its last item still to yield
Exhausted_early(items) == Len(items) <= 1

\* `yield from` has no item left
Exhausted(items) == items = <<>>

\* the consumer asks for an item: next(generator)
next ==
    /\ gPc \in {"created", "suspended"}
    /\ tPc = "idle"
    /\ IF gPc = "created"
       THEN /\ gPc' = "fetch"
            /\ pagerLog' = Append(pagerLog, [ev |-> "next"])
            /\ UNCHANGED <<request_url, pending>>
       ELSE IF ~Exhausted(pending)
       THEN /\ pagerLog' = pagerLog \o <<[ev |-> "next"], [ev |-> "item", item |-> Head(pending)]>>
            /\ pending' = Tail(pending)
            /\ UNCHANGED <<gPc, request_url>>
       ELSE /\ AfterPage(error_groups)
            /\ pagerLog' = Append(pagerLog, [ev |-> "next"])
            /\ pending' = <<>>
    /\ UNCHANGED <<page, error_groups, gResult>>
    /\ UNCHANGED <<tvars, env, uvars, hvars>>

\* page += 1; response = self.http_get(request_url): crashes.py:204-208
PagerRequest ==
    /\ gPc = "fetch"
    /\ TransportCall("http_get", "https://api.appcenter.ms/v0.1/apps/o/a")
    /\ gPc' = "get"
    /\ page' = page + 1
    /\ UNCHANGED <<request_url, error_groups, pending, gResult, pagerLog>>
    /\ UNCHANGED <<env, uvars, hvars>>

\* one HTTP request of the running http_get
PagerAttempt ==
    /\ gPc = "get"
    /\ AttemptStep
    /\ pagerLog' = Append(pagerLog, [ev |-> "GET", page |-> PageOf(request_url),
                                      ok |-> tPc' = "returned"])
    /\ UNCHANGED <<gPc, request_url, page, error_groups, pending, gResult>>
    /\ UNCHANGED <<env, uvars, hvars>>

\* mutant: the failure ends the listing as if it were complete
GeneratorRaises_silent(exception) ==
    /\ gPc' = "finished"
    /\ gResult' = None
    /\ UNCHANGED <<request_url, pending, pagerLog>>

\* the generator raises
GeneratorRaises(exception) ==
    /\ gPc' = "raised"
    /\ gResult' = exception
    /\ UNCHANGED <<request_url, pending, pagerLog>>

\* deserialize, and `yield from` up to its first item: crashes.py:210-219
deserialize_page ==
    /\ gPc = "get"
    /\ tPc \in {"returned", "raised"}
    /\ tPc' = "idle"
    /\ tMethod' = "get"
    /\ tUrl' = "https://api.appcenter.ms/v0.1/apps/o/a"
    /\ tAttempt' = 0
    /\ tQuery' = EmptyDict
    /\ tData' = None
    /\ tHist' = <<>>
    /\ tSent' = <<>>
    /\ tWaits' = <<>>
    /\ tResult' = None
    /\ IF tPc = "raised" THEN GeneratorRaises(tResult) /\ UNCHANGED error_groups
       ELSE IF tResult.format # "payload_json"
       THEN GeneratorRaises(DeserializeException) /\ UNCHANGED error_groups
       ELSE LET data == chain[PageOf(request_url)] IN
            /\ error_groups' = data
            /\ IF data.errorGroups = None
               \* yield from None
               THEN GeneratorRaises([type |-> "TypeError"])
               ELSE IF data.errorGroups.value = <<>>
               THEN /\ AfterPage(data)
                    /\ UNCHANGED <<pending, pagerLog, gResult>>
               ELSE /\ gPc' = "suspended"
                    /\ pending' = Tail(data.errorGroups.value)
                    /\ pagerLog' = Append(pagerLog, [ev |-> "item",
                                                      item |-> Head(data.errorGroups.value)])
                    /\ UNCHANGED <<request_url, gResult>>
    /\ UNCHANGED page
    /\ UNCHANGED <<env, uvars, hvars>>

----------------------------------------------------------------------------
(* upload_build: versions.py *)

MaxChunks == 2
MaxCount == 4

ChunkNumbers == 1..MaxChunks

Min(a, b) == IF a < b THEN a ELSE b

\* history counters stop counting at MaxCount
Count(n) == Min(n + 1, MaxCount)

\* an entry in the per-chunk accounts, made only in a run that keeps them
Account(new, old) == IF audit THEN new ELSE old

UploadIdle ==
    /\ pc = "idle"
    /\ attempt = 0
    /\ sleeping = FALSE
    /\ sleeps = <<>>
    /\ create_release_upload_response = None
    /\ upload_metadata_response = None
    /\ binary_file = None
    /\ chunk_numbers = <<>>
    /\ unhandled_chunks = <<>>
    /\ current = None
    /\ upload_end_response = None
    /\ result = None
    /\ opsLog = <<>>
    /\ stepsDone = {}
    /\ posts = [k \in ChunkNumbers |-> 0]
    /\ retryCalls = [k \in ChunkNumbers |-> 0]
    /\ firstFailed = {}
    /\ uploaded = {}
    /\ finishCalls = 0
    /\ finishPosts = 0
    /\ served = [k \in ChunkNumbers |-> [first |-> {}, retry |-> {}]]
    /\ ubResult = "none"
    /\ waitLog = <<>>
    /\ stepLog = <<>>

\* The answers of the network during an upload
AnswerOk == [kind |-> "response", status |-> 200, format |-> "payload_json", text |-> "body"]
AnswerGarbled == [kind |-> "response", status |-> 200, format |-> "not_json", text |-> "body"]
AnswerError == [kind |-> "response", status |-> 500, format |-> "error_json", text |-> "body"]
FailureOther == [kind |-> "exception", text |-> "Invalid URL"]
FailureConnection == [kind |-> "exception", text |-> "Connection aborted."]

\* the bytes of the file at binary_path
FileBytes == <<"b1", "b2", "b3">>

\* SetUploadMetadataResponse: what the server may declare
ChunkSizes == {1, 2}
ChunkList(n) == [i \in 1..n |-> i]
\* chunk_list: list[int] (models.py:354) is taken as the server sends it: the
\* numbers 1..n in order, or any other list that names a chunk at most once
ChunkLists ==
    {ChunkList(n) : n \in 0..MaxChunks} \cup
    {l \in UNION {[1..n -> ChunkNumbers] : n \in 1..MaxChunks} :
        \A i, j \in DOMAIN l : i # j => l[i] # l[j]}
Metadatas ==
    [type : {"SetUploadMetadataResponse"}, chunk_size : ChunkSizes,
     chunk_list : ChunkLists]

\* CreateReleaseUploadResponse
Ticket ==
    [type |-> "CreateReleaseUploadResponse", identifier |-> "upload-id",
     upload_domain |-> "https://upload", package_asset_id |-> "asset-id",
     url_encoded_token |-> "token"]

\* CommitUploadResponse of the status resource
UploadStatuses ==
    {"uploadStarted", "uploadFinished", "uploadCanceled", "readyToBePublished",
     "malwareDetected", "error", "somethingElse"}
StatusResponses ==
    [type : {"CommitUploadResponse"}, upload_status : UploadStatuses,
     release_distinct_id : {"release-id", "None"}]

\* the step functions with a `for attempt in range(3)` loop
RetrySteps ==
    {"get_upload_url", "set_upload_metadata", "_upload_chunk",
     "_mark_upload_finished", "commit_upload", "update_release"}

\* the steps whose attempts call a Transport method that retries by itself
\* and raises on an error status: post (get_upload_url), patch (commit_upload,
\* update_release)
LayeredSteps == {"get_upload_url", "commit_upload", "update_release"}

\* the values of an optional field: None, or one of the values
Optional(values) == {None} \cup {Some(v) : v \in values}

\* BuildInfo(branch_name, commit_hash, commit_message): models.py:164-173
BuildInfo(branch_name, commit_hash, commit_message) ==
    [branch_name |-> branch_name, commit_hash |-> commit_hash,
     commit_message |-> commit_message]

\* mutant: every field is written, an unset one as null
BuildInfo_json_nulls(self) ==
    [k \in {"branch_name", "commit_hash", "commit_message"} |->
        IF self[k] = None THEN "null" ELSE self[k].value]

\* BuildInfo.json: models.py:175-187
BuildInfo_json(self) ==
    LET r0 == EmptyDict
        r1 == IF self.branch_name # None
              THEN Put(r0, "branch_name", self.branch_name.value) ELSE r0
        r2 == IF self.commit_hash # None
              THEN Put(r1, "commit_hash", self.commit_hash.value) ELSE r1
        r3 == IF self.commit_message # None
              THEN Put(r2, "commit_message", self.commit_message.value) ELSE r2
    IN  r3

\* DestinationId.json: models.py:408-417
DestinationId_json(self) ==
    LET r0 == EmptyDict
        r1 == IF self.name # None THEN Put(r0, "name", self.name.value) ELSE r0
        r2 == IF self.identifier # None THEN Put(r1, "id", self.identifier.value) ELSE r1
    IN  r2

\* ReleaseUpdateRequest(...): models.py:428-441
ReleaseUpdateRequest(release_notes, mandatory_update, destinations, build, notify_testers) ==
    [release_notes |-> release_notes, mandatory_update |-> mandatory_update,
     destinations |-> destinations, build |-> build, notify_testers |-> notify_testers]

\* ReleaseUpdateRequest.json: models.py:443-461
ReleaseUpdateRequest_json(self) ==
    LET o0 == EmptyDict
        o1 == IF self.release_notes # None
              THEN Put(o0, "release_notes", self.release_notes.value) ELSE o0
        o2 == IF self.mandatory_update # None
              THEN Put(o1, "mandatory_update", self.mandatory_update.value) ELSE o1
        o3 == IF self.destinations # None
              THEN Put(o2, "destinations",
                       [i \in DOMAIN self.destinations.value |->
                            DestinationId_json(self.destinations.value[i])])
              ELSE o2
        o4 == IF self.build # None THEN Put(o3, "build", BuildInfo_json(self.build.value)) ELSE o3
        o5 == IF self.notify_testers # None
              THEN Put(o4, "notify_testers", self.notify_testers.value) ELSE o4
    IN  o5

\* upload_build: versions.py:598-601
update_request(release_notes, branch_name, commit_hash, commit_message) ==
    ReleaseUpdateRequest(release_notes, None, None,
                         Some(BuildInfo(branch_name, commit_hash, commit_message)), None)

\* MIME_TYPES: versions.py:30-46
MIME_TYPES ==
    [ext \in {"apk", "aab", "msi", "plist", "aetx", "cer", "xap", "appx", "appxbundle",
              "appxupload", "appxsym", "msix", "msixbundle", "msixupload", "msixsym"} |->
        CASE ext \in {"apk", "aab"} -> "application/vnd.android.package-archive"
          [] ext = "msi" -> "application/x-msi"
          [] ext = "plist" -> "application/xml"
          [] ext = "aetx" -> "application/c-x509-ca-cert"
          [] ext = "cer" -> "application/pkix-cert"
          [] ext = "xap" -> "application/x-silverlight-app"
          [] ext = "appx" -> "application/x-appx"
          [] ext = "appxbundle" -> "application/x-appxbundle"
          [] ext \in {"appxupload", "appxsym"} -> "application/x-appxupload"
          [] ext = "msix" -> "application/x-msix"
          [] ext = "msixbundle" -> "application/x-msixbundle"
          [] ext \in {"msixupload", "msixsym"} -> "application/x-msixupload"]

\* os.path.splitext(file_name)[-1]: the name from its last "." on, unless
\* only "." stand before that one; a name is the sequence of its tokens, a
\* token being a "." or a run of other characters
splitext(name) ==
    LET dots == {i \in DOMAIN name : name[i] = "." /\ \E h \in 1..(i - 1) : name[h] # "."}
    IN  IF dots = {} THEN <<>>
        ELSE LET last == CHOOSE i \in dots : \A j \in dots : j <= i
             IN  SubSeq(name, last, Len(name))

\* file_ext, with its leading "." taken off: versions.py:217-219; the text
\* of the one token it is made of, or the empty text
file_ext(name) ==
    LET ext == splitext(name)
        bare == IF ext # <<>> /\ Head(ext) = "." THEN Tail(ext) ELSE ext
    IN  IF bare = <<>> THEN "" ELSE Head(bare)

\* os.path.getsize(binary_path): the bytes of a file; a directory has a size
\* of its own, here 0
getsize == IF path = "file" THEN Len(FileBytes) ELSE 0

\* mutant: a file of an unknown type is declared as a byte stream
parameters_defaulted(name) ==
    Put(Put(Put(EmptyDict, "file_name", name), "file_size", getsize), "content_type",
        IF file_ext(name) \in DOMAIN MIME_TYPES THEN MIME_TYPES[file_ext(name)]
        ELSE "application/octet-stream")

\* parameters of set_upload_metadata: versions.py:220-228
parameters(name) ==
    LET mime_type == IF file_ext(name) \in DOMAIN MIME_TYPES
                     THEN Some(MIME_TYPES[file_ext(name)]) ELSE None
        base == Put(Put(EmptyDict, "file_name", name), "file_size", getsize)
    IN  IF mime_type # None THEN Put(base, "content_type", mime_type.value) ELSE base

\* the arguments the modelled calls are made with, where they do not matter
DefaultArguments ==
    /\ file_name = <<"app", ".", "apk">>
    /\ release_update_request = update_request(Some("notes"), None, Some("hash"), None)

\* the Transport method of each step
StepMethod(step) ==
    CASE step \in {"get_upload_url", "set_upload_metadata"} -> "post"
      [] step \in {"_upload_chunk", "_mark_upload_finished"} -> "post_raw_data"
      [] step \in {"commit_upload", "update_release"} -> "patch"
      [] step = "_wait_for_upload" -> "get"

\* request_url of each step
StepUrl(step) ==
    CASE step = "get_upload_url" -> "/uploads/releases"
      [] step = "set_upload_metadata" -> "/upload/set_metadata/"
      [] step = "_upload_chunk" -> "/upload/upload_chunk/"
      [] step = "_mark_upload_finished" -> "/upload/finished/"
      [] step \in {"commit_upload", "_wait_for_upload"} -> "/uploads/releases/"
      [] step = "update_release" -> "/releases/"

\* the query of each step's request_url: urllib.parse.urlencode(parameters),
\* then "&token=" and the token of the upload
StepQuery(step) ==
    CASE step = "set_upload_metadata" ->
            Put(parameters(file_name), "token", create_release_upload_response.url_encoded_token)
      [] step = "_upload_chunk" ->
            Put(Put(EmptyDict, "block_number", current.chunk_number), "token",
                create_release_upload_response.url_encoded_token)
      [] step = "_mark_upload_finished" ->
            Put(Put(EmptyDict, "callback", ""), "token",
                create_release_upload_response.url_encoded_token)
      [] OTHER -> EmptyDict

\* the data of each step's request
StepData(step) ==
    CASE step \in {"get_upload_url", "set_upload_metadata"} -> Some(EmptyDict)
      [] step = "_upload_chunk" -> Some(current.chunk)
      [] step = "_mark_upload_finished" -> None
      [] step = "commit_upload" -> Some(Put(EmptyDict, "upload_status", "uploadFinished"))
      [] step = "update_release" -> Some(ReleaseUpdateRequest_json(release_update_request))
      [] step = "_wait_for_upload" -> None

\* the kind of network operation a request of the step is
OpKind(step) ==
    CASE step = "get_upload_url" -> "begin"
      [] step = "set_upload_metadata" -> "set_metadata"
      [] step = "_upload_chunk" -> IF current.pass = "first" THEN "chunk_first" ELSE "chunk_retry"
      [] step = "_mark_upload_finished" -> "finish"
      [] step = "commit_upload" -> "commit"
      [] step = "_wait_for_upload" -> "poll"
      [] step = "update_release" -> "finalize"

\* deserialize.deserialize(<response class>, response.json()) succeeds
Decodes(response) == response.format = "payload_json"

\* How one pass through the body of the attempt loop ends: the try block
\* ran to its end with an ok response, it ran to its end with a response that
\* is not ok, or it raised (the Transport method, or the deserialization
\* where that is inside the try block).
StepOutcome(decodeInTry) ==
    IF tPc = "raised" THEN "except"
    ELSE IF ~Ok(tResult) THEN "not_ok"
    ELSE IF decodeInTry /\ ~Decodes(tResult) THEN "except"
    ELSE "ok"

\* the exception the except clause of the attempt loop caught
Caught == IF tPc = "raised" THEN tResult ELSE DeserializeException

\* The step function takes the result of its Transport call.
Consume ==
    /\ tPc \in {"returned", "raised"}
    /\ tPc' = "idle"
    /\ tMethod' = "get"
    /\ tUrl' = "https://api.appcenter.ms/v0.1/apps/o/a"
    /\ tAttempt' = 0
    /\ tQuery' = EmptyDict
    /\ tData' = None
    /\ tHist' = <<>>
    /\ tSent' = <<>>
    /\ tWaits' = <<>>
    /\ tResult' = None

\* a step function is entered
Enter(step) ==
    /\ pc' = step
    /\ attempt' = 0
    /\ sleeping' = FALSE
    /\ sleeps' = <<>>

\* mutant: the exception is logged and the upload goes on to its commit
Propagate_logged(exception) ==
    /\ pc' = "commit_upload"
    /\ attempt' = 0
    /\ sleeping' = FALSE
    /\ sleeps' = <<>>
    /\ UNCHANGED result

\* an exception leaves upload_build
Propagate(exception) ==
    /\ pc' = "done"
    /\ result' = Raised(exception)
    /\ UNCHANGED <<attempt, sleeping, sleeps>>

\* mutant: the next attempt follows at once
ExceptSleeps_skipped ==
    /\ attempt' = attempt + 1
    /\ UNCHANGED <<pc, sleeping, sleeps, result>>

\* except Exception as ex: if attempt < 2: ... time.sleep(10)
ExceptSleeps ==
    /\ sleeping' = TRUE
    /\ UNCHANGED <<pc, attempt, sleeps, result>>

\* a response that is not ok: the loop goes to its next pass, without a sleep
NextPass ==
    /\ attempt' = attempt + 1
    /\ UNCHANGED <<pc, sleeping, sleeps, result>>

\* what may be at a local path
Paths == {"file", "directory", "missing"}

\* os.path.exists(path)
exists == path # "missing"

\* os.path.isfile(path)
isfile == path = "file"

\* mutant: the upload starts without a look at the path
upload_build_unchecked ==
    /\ pc = "idle"
    /\ tPc = "idle"
    /\ Enter("get_upload_url")
    /\ UNCHANGED <<create_release_upload_response, upload_metadata_response, binary_file,
                   chunk_numbers, unhandled_chunks, current, upload_end_response, result>>
    /\ UNCHANGED <<tvars, env, pvars, hvars>>

\* upload_build is called: versions.py:572-577
upload_build ==
    /\ pc = "idle"
    /\ tPc = "idle"
    /\ IF ~exists
       THEN Propagate([type |-> "FileNotFoundError", text |-> "Could not find binary: "])
       ELSE Enter("get_upload_url") /\ UNCHANGED result
    /\ UNCHANGED <<create_release_upload_response, upload_metadata_response, binary_file,
                   chunk_numbers, unhandled_chunks, current, upload_end_response>>
    /\ UNCHANGED <<tvars, env, pvars, hvars>>

\* the request of one attempt of a step, or one poll: self.post(...), self.get(...)
StepRequest ==
    /\ pc \in RetrySteps \cup {"_wait_for_upload"}
    /\ ~sleeping
    /\ TransportRequest(StepMethod(pc), StepUrl(pc), StepQuery(pc), StepData(pc))
    /\ UNCHANGED <<env, pvars, uvars, hvars>>

\* the request was answered with a success status and the documented body
Accepts(o) ==
    o.kind = "response" /\ o.status >= 200 /\ o.status < 300 /\ o.format = "payload_json"

\* one HTTP request of the running Transport call
UploadAttempt ==
    /\ pc \in RetrySteps \cup {"_wait_for_upload"}
    /\ AttemptStep
    /\ opsLog' = IF opsLog # <<>> /\ opsLog[Len(opsLog)] = OpKind(pc)
                 THEN opsLog ELSE Append(opsLog, OpKind(pc))
    /\ posts' = IF pc = "_upload_chunk"
                THEN Account([posts EXCEPT ![current.chunk_number] = Count(@)], posts)
                ELSE posts
    /\ finishPosts' = IF pc = "_mark_upload_finished"
                      THEN Account(Count(finishPosts), finishPosts) ELSE finishPosts
    /\ served' = IF pc = "_upload_chunk"
                 THEN LET answer == IF Accepts(tHist'[Len(tHist')]) THEN "ok" ELSE "fail"
                          k == current.chunk_number
                      IN  Account([served EXCEPT ![k][current.pass] = @ \cup {answer}], served)
                 ELSE served
    /\ waitLog' = IF pc = "_wait_for_upload"
                  THEN Account(Append(waitLog, IF Accepts(tHist'[Len(tHist')])
                                               THEN "GET" ELSE "GET failed"), waitLog)
                  ELSE waitLog
    /\ stepLog' = IF pc \in LayeredSteps
                  THEN Account(Append(stepLog, tHist'[Len(tHist')]), stepLog)
                  ELSE stepLog
    /\ UNCHANGED <<stepsDone, retryCalls, firstFailed, uploaded, finishCalls, ubResult>>
    /\ UNCHANGED <<setting, avars, pvars, uvars>>

\* time.sleep(10) of the attempt loop, then the next pass
StepSleep ==
    /\ pc \in RetrySteps
    /\ sleeping
    /\ sleeping' = FALSE
    /\ sleeps' = Append(sleeps, 10)
    /\ attempt' = attempt + 1
    /\ UNCHANGED <<pc, create_release_upload_response, upload_metadata_response, binary_file,
                   chunk_numbers, unhandled_chunks, current, upload_end_response, result>>
    /\ UNCHANGED <<tvars, env, pvars, hvars>>

\* versions.py:189-203, and upload_build:575-581 up to the call of set_upload_metadata
get_upload_url ==
    /\ pc = "get_upload_url"
    /\ Consume
    /\ LET oc == StepOutcome(FALSE)
           leaves == oc = "ok" \/ (oc = "not_ok" /\ attempt >= 2)
       IN  /\ IF oc = "except"
              THEN IF attempt < 2 THEN ExceptSleeps ELSE Propagate(Caught)
              ELSE IF ~leaves THEN NextPass
              ELSE IF ~Decodes(tResult) THEN Propagate(DeserializeException)
              ELSE Enter("set_upload_metadata") /\ UNCHANGED result
           /\ create_release_upload_response' =
                IF leaves /\ Decodes(tResult) THEN Ticket ELSE create_release_upload_response
           /\ stepsDone' = IF leaves /\ Decodes(tResult)
                           THEN stepsDone \cup {"get_upload_url"} ELSE stepsDone
    /\ UNCHANGED <<upload_metadata_response, binary_file, chunk_numbers, unhandled_chunks,
                   current, upload_end_response>>
    /\ UNCHANGED <<env, pvars, opsLog, posts, retryCalls, firstFailed, uploaded, finishCalls,
                   finishPosts, served, ubResult, waitLog>>

\* versions.py:233-247, and upload_binary:331-338
set_upload_metadata ==
    /\ pc = "set_upload_metadata"
    /\ Consume
    /\ LET oc == StepOutcome(TRUE)
           none == oc = "not_ok" /\ attempt >= 2
       IN  \E metadata \in Metadatas :
           /\ IF oc = "except"
              THEN IF attempt < 2 THEN ExceptSleeps ELSE Propagate(Caught)
              ELSE IF oc = "not_ok" /\ attempt < 2 THEN NextPass
              ELSE IF none
              \* upload_metadata_response is None: .chunk_list raises
              THEN Propagate([type |-> "AttributeError"])
              \* open(binary_path, "rb") raises when the path is a directory
              ELSE IF ~isfile THEN Propagate([type |-> "IsADirectoryError"])
              ELSE /\ pc' = "first_pass"
                   /\ UNCHANGED <<attempt, sleeping, sleeps, result>>
           /\ upload_metadata_response' = IF oc = "ok" THEN metadata ELSE upload_metadata_response
           /\ binary_file' = IF oc = "ok" /\ isfile
                             THEN [bytes |-> FileBytes, position |-> 0] ELSE binary_file
           /\ chunk_numbers' = IF oc = "ok" /\ isfile THEN metadata.chunk_list ELSE chunk_numbers
           /\ stepsDone' = IF oc = "ok" THEN stepsDone \cup {"set_upload_metadata"} ELSE stepsDone
           /\ ubResult' = IF pc' = "done" THEN "raised" ELSE ubResult
    /\ UNCHANGED <<create_release_upload_response, unhandled_chunks, current,
                   upload_end_response>>
    /\ UNCHANGED <<env, pvars, opsLog, posts, retryCalls, firstFailed, uploaded, finishCalls,
                   finishPosts, served, waitLog>>

\* binary_file.read(size)
Read(file, size) ==
    SubSeq(file.bytes, file.position + 1, Min(file.position + size, Len(file.bytes)))

\* mutant: a failed chunk is logged and not queued
Requeue_dropped(queue, chunk) == queue

\* mutant: a failed chunk is queued with its attempts used up
Requeue_spent(queue, chunk) ==
    Append(queue, [chunk_number |-> chunk.chunk_number, attempts |-> 3, chunk |-> chunk.chunk])

\* mutant: a failed chunk is put at the front of the queue
Requeue_atFront(queue, chunk) ==
    <<[chunk_number |-> chunk.chunk_number, attempts |-> 0, chunk |-> chunk.chunk]>> \o queue

\* mutant: a failed chunk is queued with the bytes at the start of the file
Requeue_rewound(queue, chunk) ==
    Append(queue, [chunk_number |-> chunk.chunk_number, attempts |-> 0,
                   chunk |-> SubSeq(FileBytes, 1, Len(chunk.chunk))])

\* unhandled_chunks.append((chunk_number, 0, chunk))
Requeue(queue, chunk) ==
    Append(queue, [chunk_number |-> chunk.chunk_number, attempts |-> 0, chunk |-> chunk.chunk])

\* mutant: the first pass stops at the first failed chunk
FirstPassContinues_untilFailure == Len(chunk_numbers) > 0 /\ unhandled_chunks = <<>>

\* while len(chunk_numbers) > 0: versions.py:357
FirstPassContinues == Len(chunk_numbers) > 0

\* mutant: the retry queue is never drained
RetryPassContinues_never == FALSE

\* while len(unhandled_chunks) > 0: versions.py:362
RetryPassContinues == Len(unhandled_chunks) > 0

\* upload_binary, the first loop: versions.py:357-360
first_pass ==
    /\ pc = "first_pass"
    /\ IF FirstPassContinues
       THEN LET chunk == Read(binary_file, upload_metadata_response.chunk_size) IN
            /\ chunk_numbers' = Tail(chunk_numbers)
            /\ binary_file' = [binary_file EXCEPT !.position = @ + Len(chunk)]
            /\ current' = [chunk_number |-> Head(chunk_numbers), chunk |-> chunk,
                           pass |-> "first"]
            /\ Enter("_upload_chunk")
       ELSE /\ pc' = "retry_pass"
            /\ UNCHANGED <<chunk_numbers, binary_file, current, attempt, sleeping, sleeps>>
    /\ UNCHANGED <<create_release_upload_response, upload_metadata_response,
                   unhandled_chunks, upload_end_response, result>>
    /\ UNCHANGED <<tvars, env, pvars, hvars>>

\* the attempts after which a queued chunk is given up: versions.py:364
GiveUpAttempts == 3

\* upload_binary, the second loop: versions.py:362-369, and upload_build:583-584
retry_pass ==
    /\ pc = "retry_pass"
    /\ IF RetryPassContinues
       THEN LET entry == Head(unhandled_chunks) IN
            /\ unhandled_chunks' = Tail(unhandled_chunks)
            /\ IF entry.attempts >= GiveUpAttempts
               THEN /\ ubResult' = "False"
                    /\ Propagate([type |-> "Exception", text |-> "Failed to upload binary"])
                    /\ binary_file' = None
                    /\ UNCHANGED <<current, retryCalls, finishCalls>>
               ELSE /\ current' = [chunk_number |-> entry.chunk_number,
                                   chunk |-> entry.chunk, pass |-> "retry"]
                    /\ retryCalls' = Account([retryCalls EXCEPT ![entry.chunk_number] = Count(@)],
                                             retryCalls)
                    /\ Enter("_upload_chunk")
                    /\ UNCHANGED <<result, ubResult, binary_file, finishCalls>>
       ELSE /\ Enter("_mark_upload_finished")
            /\ finishCalls' = Account(Count(finishCalls), finishCalls)
            /\ binary_file' = None
            /\ UNCHANGED <<unhandled_chunks, current, retryCalls, result, ubResult>>
    /\ UNCHANGED <<create_release_upload_response, upload_metadata_response,
                   chunk_numbers, upload_end_response>>
    /\ UNCHANGED <<tvars, env, pvars, opsLog, stepsDone, posts, firstFailed, uploaded,
                   finishPosts, served, waitLog>>

\* the body of a chunk acknowledgment whose error flag is set
ErrorFlagText == "error=true"

\* deserialize.deserialize(ChunkUploadResponse, response.json()): versions.py:276
ChunkUploadResponse(response) ==
    [type |-> "ChunkUploadResponse", error |-> response.text = ErrorFlagText]

\* mutant: a chunk acknowledged with its error flag set is queued for a retry
Unhandled_flagged(response) == response = None \/ response.error

\* if response is None: versions.py:349
Unhandled(response) == response = None

\* mutant: a chunk that failed in the first pass is retried at once
direct_upload_chunk_retriesAtOnce(pass, failed) ==
    IF failed \/ pass = "retry" THEN "retry_pass" ELSE "first_pass"

\* direct_upload_chunk (versions.py:340-355) catches what _upload_chunk raised
\* and returns into the loop that called it: 360 of the first loop, 367 of the
\* second
direct_upload_chunk(pass, failed) ==
    IF pass = "first" THEN "first_pass" ELSE "retry_pass"

\* _upload_chunk (versions.py:272-286) inside direct_upload_chunk (340-355)
_upload_chunk ==
    /\ pc = "_upload_chunk"
    /\ Consume
    /\ LET oc == StepOutcome(TRUE)
           \* what _upload_chunk returns when it does: the decoded response, or None
           response == IF oc = "ok" THEN ChunkUploadResponse(tResult) ELSE None
           \* _upload_chunk raised, or returned what direct_upload_chunk queues
           failed == \/ oc = "except" /\ attempt >= 2
                     \/ oc = "not_ok" /\ attempt >= 2 /\ Unhandled(response)
                     \/ oc = "ok" /\ Unhandled(response)
           back == direct_upload_chunk(current.pass, failed)
       IN  /\ IF oc = "except" /\ attempt < 2 THEN ExceptSleeps
              ELSE IF oc = "not_ok" /\ attempt < 2 THEN NextPass
              ELSE /\ pc' = back
                   /\ UNCHANGED <<attempt, sleeping, sleeps, result>>
           /\ unhandled_chunks' = IF failed THEN Requeue(unhandled_chunks, current)
                                  ELSE unhandled_chunks
           /\ firstFailed' = IF failed /\ current.pass = "first"
                             THEN Account(firstFailed \cup {current.chunk_number}, firstFailed)
                             ELSE firstFailed
           /\ uploaded' = IF oc = "ok" /\ ~failed
                          THEN Account(uploaded \cup {current.chunk_number}, uploaded)
                          ELSE uploaded
    /\ UNCHANGED <<create_release_upload_response, upload_metadata_response, binary_file,
                   chunk_numbers, current, upload_end_response>>
    /\ UNCHANGED <<env, pvars, opsLog, stepsDone, posts, retryCalls, finishCalls, finishPosts,
                   served, ubResult, waitLog>>

\* _mark_upload_finished (versions.py:304-318), the return of upload_binary
\* (371) and upload_build:583-586
_mark_upload_finished ==
    /\ pc = "_mark_upload_finished"
    /\ Consume
    /\ LET oc == StepOutcome(TRUE)
           returns == oc = "ok" \/ (oc = "not_ok" /\ attempt >= 2)
       IN  /\ IF oc = "except"
              THEN IF attempt < 2 THEN ExceptSleeps ELSE Propagate(Caught)
              ELSE IF ~returns THEN NextPass
              ELSE Enter("commit_upload") /\ UNCHANGED result
           /\ ubResult' = IF returns THEN "True"
                          ELSE IF oc = "except" /\ attempt >= 2 THEN "raised" ELSE ubResult
           /\ stepsDone' = IF oc = "ok" THEN stepsDone \cup {"_mark_upload_finished"}
                           ELSE stepsDone
    /\ UNCHANGED <<create_release_upload_response, upload_metadata_response, binary_file,
                   chunk_numbers, unhandled_chunks, current, upload_end_response>>
    /\ UNCHANGED <<env, pvars, opsLog, posts, retryCalls, firstFailed, uploaded, finishCalls,
                   finishPosts, served, waitLog>>

\* versions.py:390-404
commit_upload ==
    /\ pc = "commit_upload"
    /\ Consume
    /\ LET oc == StepOutcome(FALSE)
           leaves == oc = "ok" \/ (oc = "not_ok" /\ attempt >= 2)
       IN  /\ IF oc = "except"
              THEN IF attempt < 2 THEN ExceptSleeps ELSE Propagate(Caught)
              ELSE IF ~leaves THEN NextPass
              ELSE IF ~Decodes(tResult) THEN Propagate(DeserializeException)
              ELSE Enter("_wait_for_upload") /\ UNCHANGED result
           /\ stepsDone' = IF leaves /\ Decodes(tResult)
                           THEN stepsDone \cup {"commit_upload"} ELSE stepsDone
    /\ UNCHANGED <<create_release_upload_response, upload_metadata_response, binary_file,
                   chunk_numbers, unhandled_chunks, current, upload_end_response>>
    /\ UNCHANGED <<env, pvars, opsLog, posts, retryCalls, firstFailed, uploaded, finishCalls,
                   finishPosts, served, ubResult, waitLog>>

\* the poll interval: versions.py:421
PollInterval == 2

\* mutant: uploadFinished is not taken for a status to wait on
NonTerminalStatuses_startedOnly == {"uploadStarted"}

\* versions.py:438
NonTerminalStatuses == {"uploadStarted", "uploadFinished"}

\* mutant: uploadCanceled is not taken for a status to return on
ReturningStatuses_readyOnly == {"readyToBePublished"}

\* versions.py:442-446
ReturningStatuses == {"uploadCanceled", "readyToBePublished"}

\* what a pass of the polling loop read: the upload status, or how reading failed
Reading(response_data) ==
    IF tPc = "raised"
    THEN LET error == IF tResult.type = "RetryError" THEN tResult.last_attempt.value
                      ELSE tResult
         IN  IF error.type \in {"AppCenterHTTPException", "AppCenterDecodedHTTPException"}
             THEN "http error" ELSE "raised"
    ELSE IF ~Ok(tResult) THEN "not ok"
    ELSE IF ~Decodes(tResult) THEN "undecodable"
    ELSE response_data.upload_status

\* raise Exception("An error occurred when waiting for binary: "
\* + response_data.get("error_details", "?")) (versions.py:451-455): get is
\* looked up on the CommitUploadResponse, whose attributes are its declared
\* fields (models.py:374-378); the message is built only when the lookup succeeds
ProcessingError(response_data) ==
    IF "get" \in DOMAIN response_data
    THEN [type |-> "Exception", text |-> "An error occurred when waiting for binary: "]
    ELSE [type |-> "AttributeError", text |-> "get"]

\* one pass of the loop of _wait_for_upload: versions.py:423-457
_wait_for_upload ==
    /\ pc = "_wait_for_upload"
    /\ Consume
    /\ \E response_data \in {r \in StatusResponses : r.upload_status \in statuses} :
        LET status == response_data.upload_status IN
        /\ waitLog' = Account(Append(waitLog, Reading(response_data)), waitLog)
        /\ IF tPc = "raised" THEN
                /\ Propagate(tResult)
                /\ UNCHANGED <<upload_end_response, stepsDone>>
            ELSE IF ~Ok(tResult) \/ ~Decodes(tResult)
                    \/ status \in NonTerminalStatuses THEN
                /\ sleeping' = TRUE
                /\ UNCHANGED <<pc, attempt, sleeps, result, upload_end_response, stepsDone>>
            ELSE IF status \in ReturningStatuses THEN
                /\ upload_end_response' = response_data
                /\ stepsDone' = stepsDone \cup {"_wait_for_upload"}
                /\ Enter("update_release")
                /\ UNCHANGED result
            ELSE IF status = "malwareDetected" THEN
                /\ Propagate([type |-> "Exception", text |-> "Malware detected in uploaded binary"])
                /\ UNCHANGED <<upload_end_response, stepsDone>>
            ELSE IF status = "error" THEN
                /\ Propagate(ProcessingError(response_data))
                /\ UNCHANGED <<upload_end_response, stepsDone>>
            ELSE
                /\ Propagate([type |-> "Exception", text |-> "Unexpected status: "])
                /\ UNCHANGED <<upload_end_response, stepsDone>>
    /\ UNCHANGED <<create_release_upload_response, upload_metadata_response, binary_file,
                   chunk_numbers, unhandled_chunks, current>>
    /\ UNCHANGED <<env, pvars, opsLog, posts, retryCalls, firstFailed, uploaded, finishCalls,
                   finishPosts, served, ubResult>>

\* mutant: the loop gives up at its third sleep
wait_capped ==
    /\ pc = "_wait_for_upload"
    /\ sleeping
    /\ IF Len(sleeps) < 2
       THEN /\ sleeping' = FALSE
            /\ sleeps' = Append(sleeps, PollInterval)
            /\ UNCHANGED <<pc, attempt, result>>
       ELSE Propagate([type |-> "TimeoutError", text |-> "gave up"])
    /\ waitLog' = Account(Append(waitLog, "sleep"), waitLog)
    /\ UNCHANGED <<create_release_upload_response, upload_metadata_response,
                   binary_file, chunk_numbers, unhandled_chunks, current,
                   upload_end_response>>
    /\ UNCHANGED <<tvars, env, pvars, opsLog, stepsDone, posts, retryCalls, firstFailed, uploaded,
                   finishCalls, finishPosts, served, ubResult>>

\* wait(): versions.py:419-421; the record of the sleeps stops at MaxCount
wait ==
    /\ pc = "_wait_for_upload"
    /\ sleeping
    /\ sleeping' = FALSE
    /\ sleeps' = IF Len(sleeps) < MaxCount THEN Append(sleeps, PollInterval) ELSE sleeps
    /\ waitLog' = Account(Append(waitLog, "sleep"), waitLog)
    /\ UNCHANGED <<pc, attempt, create_release_upload_response, upload_metadata_response,
                   binary_file, chunk_numbers, unhandled_chunks, current,
                   upload_end_response, result>>
    /\ UNCHANGED <<tvars, env, pvars, opsLog, stepsDone, posts, retryCalls, firstFailed, uploaded,
                   finishCalls, finishPosts, served, ubResult>>

\* update_release (versions.py:527-539) and the return of upload_build (610)
update_release ==
    /\ pc = "update_release"
    /\ Consume
    /\ LET oc == StepOutcome(FALSE)
           leaves == oc = "ok" \/ (oc = "not_ok" /\ attempt >= 2)
       IN  /\ IF oc = "except"
              THEN IF attempt < 2 THEN ExceptSleeps ELSE Propagate(Caught)
              ELSE IF ~leaves THEN NextPass
              ELSE /\ pc' = "done"
                   /\ result' = Returned(upload_end_response.release_distinct_id)
                   /\ UNCHANGED <<attempt, sleeping, sleeps>>
           /\ stepsDone' = IF oc = "ok" THEN stepsDone \cup {"update_release"} ELSE stepsDone
    /\ UNCHANGED <<create_release_upload_response, upload_metadata_response, binary_file,
                   chunk_numbers, unhandled_chunks, current, upload_end_response>>
    /\ UNCHANGED <<env, pvars, opsLog, posts, retryCalls, firstFailed, uploaded, finishCalls,
                   finishPosts, served, ubResult, waitLog>>

\* the answers the network gives during the modelled uploads
UploadAnswers == {AnswerOk, AnswerGarbled, AnswerError, FailureOther, FailureConnection}

\* upload_build, from its call to its end
Init ==
    /\ TransportIdle
    /\ UploadIdle
    /\ PagerIdle
    /\ chain = <<>>
    /\ org_name = "org"
    /\ app_name = "app"
    /\ __init__("token-1")
    /\ AnnotationIdle
    /\ DefaultArguments
    /\ answers = UploadAnswers
    /\ statuses = UploadStatuses
    /\ audit = FALSE
    /\ path \in Paths

Next ==
    \/ upload_build
    \/ StepRequest
    \/ UploadAttempt
    \/ Wait
    \/ StepSleep
    \/ get_upload_url
    \/ set_upload_metadata
    \/ first_pass
    \/ retry_pass
    \/ _upload_chunk
    \/ _mark_upload_finished
    \/ commit_upload
    \/ _wait_for_upload
    \/ wait
    \/ update_release

Spec == Init /\ [][Next]_vars

----------------------------------------------------------------------------
(* upload_binary, called with the response of get_upload_url, with the     *)
(* accounts of the chunk uploads kept                                      *)

BinarySteps == {"set_upload_metadata", "_upload_chunk", "_mark_upload_finished"}

upload_binary ==
    /\ pc = "idle"
    /\ tPc = "idle"
    /\ Enter("set_upload_metadata")
    /\ create_release_upload_response' = Ticket
    /\ UNCHANGED <<upload_metadata_response, binary_file, chunk_numbers, unhandled_chunks,
                   current, upload_end_response, result>>
    /\ UNCHANGED <<tvars, env, pvars, hvars>>

BinaryRequest == pc \in BinarySteps /\ StepRequest

BinaryAttempt == pc \in BinarySteps /\ UploadAttempt

InitBinary ==
    /\ TransportIdle
    /\ UploadIdle
    /\ PagerIdle
    /\ chain = <<>>
    /\ org_name = "org"
    /\ app_name = "app"
    /\ __init__("token-1")
    /\ AnnotationIdle
    /\ DefaultArguments
    /\ answers = UploadAnswers
    /\ statuses = UploadStatuses
    /\ audit = TRUE
    /\ path = "file"

NextBinary ==
    \/ upload_binary
    \/ BinaryRequest
    \/ BinaryAttempt
    \/ Wait
    \/ StepSleep
    \/ set_upload_metadata
    \/ first_pass
    \/ retry_pass
    \/ _upload_chunk
    \/ _mark_upload_finished

SpecBinary == InitBinary /\ [][NextBinary]_vars

\* a chunk endpoint that acknowledges with the error flag set
AnswerChunkError ==
    [kind |-> "response", status |-> 200, format |-> "payload_json", text |-> ErrorFlagText]

\* upload_binary against that endpoint, alone or among failures
InitFlagged ==
    /\ TransportIdle
    /\ UploadIdle
    /\ PagerIdle
    /\ chain = <<>>
    /\ org_name = "org"
    /\ app_name = "app"
    /\ __init__("token-1")
    /\ AnnotationIdle
    /\ DefaultArguments
    /\ answers \in {{AnswerChunkError}, {AnswerChunkError, AnswerError, FailureConnection}}
    /\ statuses = UploadStatuses
    /\ audit = TRUE
    /\ path = "file"

SpecFlagged == InitFlagged /\ [][NextBinary]_vars

----------------------------------------------------------------------------
(* _wait_for_upload, called on a committed upload, with a log of its polls *)

MaxPolls == 3

\* the polls made so far
Polls == Len(SelectSeq(waitLog, LAMBDA e : e \notin {"GET", "GET failed", "sleep"}))

wait_for_upload_call ==
    /\ pc = "idle"
    /\ tPc = "idle"
    /\ Enter("_wait_for_upload")
    /\ create_release_upload_response' = Ticket
    /\ UNCHANGED <<upload_metadata_response, binary_file, chunk_numbers, unhandled_chunks,
                   current, upload_end_response, result>>
    /\ UNCHANGED <<tvars, env, pvars, hvars>>

PollRequest == pc = "_wait_for_upload" /\ Polls < MaxPolls /\ StepRequest

PollAttempt == pc = "_wait_for_upload" /\ UploadAttempt

InitWait ==
    /\ TransportIdle
    /\ UploadIdle
    /\ PagerIdle
    /\ chain = <<>>
    /\ org_name = "org"
    /\ app_name = "app"
    /\ __init__("token-1")
    /\ AnnotationIdle
    /\ DefaultArguments
    /\ answers = UploadAnswers
    /\ statuses = UploadStatuses
    /\ audit = TRUE
    /\ path = "file"

NextWait ==
    \/ wait_for_upload_call
    \/ PollRequest
    \/ PollAttempt
    \/ Wait
    \/ _wait_for_upload
    \/ wait

SpecWait == InitWait /\ [][NextWait]_vars

----------------------------------------------------------------------------
(* upload_symbols (crashes.py), beside upload_build: the two uploads of a  *)
(* local file                                                              *)

SymbolSteps == {"begin_symbol_upload", "commit_symbol_upload"}

\* SymbolUploadStatus
SymbolUploadStatuses == {"committed", "aborted"}

\* upload_symbols is called: crashes.py:387-393
upload_symbols ==
    /\ pc = "idle"
    /\ tPc = "idle"
    /\ IF ~isfile
       THEN Propagate([type |-> "FileNotFoundError", text |-> "There was no file at: "])
       ELSE Enter("begin_symbol_upload") /\ UNCHANGED result
    /\ UNCHANGED <<create_release_upload_response, upload_metadata_response, binary_file,
                   chunk_numbers, unhandled_chunks, current, upload_end_response>>
    /\ UNCHANGED <<tvars, env, pvars, hvars>>

\* self.http_post(request_url, data=data), self.http_patch(request_url, data=data)
SymbolRequest ==
    /\ pc \in SymbolSteps
    /\ IF pc = "begin_symbol_upload"
       THEN TransportCall("http_post", "/symbol_uploads")
       ELSE TransportCall("http_patch", "/symbol_uploads/")
    /\ UNCHANGED <<env, pvars, uvars, hvars>>

\* one HTTP request of the running Transport call
SymbolAttempt ==
    /\ pc \in SymbolSteps
    /\ AttemptStep
    /\ opsLog' = Append(opsLog, pc)
    /\ UNCHANGED <<stepsDone, posts, retryCalls, firstFailed, uploaded, finishCalls,
                   finishPosts, served, ubResult, waitLog>>
    /\ UNCHANGED <<env, pvars, uvars>>

\* crashes.py:330-332, and upload_symbols up to the upload of the blob
begin_symbol_upload ==
    /\ pc = "begin_symbol_upload"
    /\ Consume
    /\ IF tPc = "raised" THEN Propagate(tResult)
       ELSE IF ~Decodes(tResult) THEN Propagate(DeserializeException)
       ELSE /\ pc' = "upload_blob"
            /\ UNCHANGED <<attempt, sleeping, sleeps, result>>
    /\ UNCHANGED <<create_release_upload_response, upload_metadata_response, binary_file,
                   chunk_numbers, unhandled_chunks, current, upload_end_response>>
    /\ UNCHANGED <<env, pvars, hvars>>

\* service.upload_blob(...): crashes.py:401-415
upload_blob ==
    /\ pc = "upload_blob"
    /\ tPc = "idle"
    /\ opsLog' = Append(opsLog, "upload_blob")
    /\ \E stored \in BOOLEAN :
        IF stored
        THEN /\ pc' = "commit_symbol_upload"
             /\ UNCHANGED <<attempt, sleeping, sleeps, result>>
        ELSE Propagate([type |-> "AzureError"])
    /\ UNCHANGED <<create_release_upload_response, upload_metadata_response, binary_file,
                   chunk_numbers, unhandled_chunks, current, upload_end_response>>
    /\ UNCHANGED <<tvars, env, pvars, stepsDone, posts, retryCalls, firstFailed, uploaded,
                   finishCalls, finishPosts, served, ubResult, waitLog>>

\* crashes.py:351-353, and the end of upload_symbols: 417-424
commit_symbol_upload ==
    /\ pc = "commit_symbol_upload"
    /\ Consume
    /\ \E status \in SymbolUploadStatuses :
        IF tPc = "raised" THEN Propagate(tResult)
        ELSE IF ~Decodes(tResult) THEN Propagate(DeserializeException)
        ELSE IF status # "committed"
        THEN Propagate([type |-> "Exception", text |-> "Failed to upload symbols"])
        ELSE /\ pc' = "done"
             /\ result' = Returned(None)
             /\ UNCHANGED <<attempt, sleeping, sleeps>>
    /\ UNCHANGED <<create_release_upload_response, upload_metadata_response, binary_file,
                   chunk_numbers, unhandled_chunks, current, upload_end_response>>
    /\ UNCHANGED <<env, pvars, hvars>>

NextUploads ==
    \/ Next
    \/ upload_symbols
    \/ SymbolRequest
    \/ SymbolAttempt
    \/ begin_symbol_upload
    \/ upload_blob
    \/ commit_symbol_upload

SpecUploads == Init /\ [][NextUploads]_vars

----------------------------------------------------------------------------
(* upload_and_release: upload_build, then release to a group and the       *)
(* details of the release (versions.py:612-670).  pc = "done" is the       *)
(* return of upload_build into upload_and_release, pc = "ended" the end of *)
(* upload_and_release.                                                     *)

DistributeSteps == {"release", "release_details"}

\* upload_and_release ends: it returns a value or raises
Ends(outcome) ==
    /\ pc' = "ended"
    /\ result' = outcome
    /\ UNCHANGED <<attempt, sleeping, sleeps>>

\* mutant: the release id is not looked at
upload_and_release_unchecked ==
    /\ pc = "done"
    /\ tPc = "idle"
    /\ IF result.failed THEN Ends(result)
       ELSE Enter("release") /\ UNCHANGED result
    /\ UNCHANGED <<create_release_upload_response, upload_metadata_response, binary_file,
                   chunk_numbers, unhandled_chunks, current, upload_end_response>>
    /\ UNCHANGED <<tvars, env, pvars, hvars>>

\* upload_build has ended: versions.py:641-656 and the call of release
upload_and_release ==
    /\ pc = "done"
    /\ tPc = "idle"
    /\ IF result.failed THEN Ends(result)
       ELSE IF result.value = "None"
       THEN Ends(Raised([type |-> "Exception", text |-> "Did not get release ID after upload"]))
       ELSE Enter("release") /\ UNCHANGED result
    /\ UNCHANGED <<create_release_upload_response, upload_metadata_response, binary_file,
                   chunk_numbers, unhandled_chunks, current, upload_end_response>>
    /\ UNCHANGED <<tvars, env, pvars, hvars>>

\* self.post(request_url, data=data) of release (versions.py:484-493),
\* self.get(request_url) of release_details (versions.py:127-130)
DistributeRequest ==
    /\ pc \in DistributeSteps
    /\ ~sleeping
    /\ IF pc = "release"
       THEN TransportRequest("post", "/releases/groups", EmptyDict,
                Some(Put(Put(Put(EmptyDict, "id", "group-id"), "mandatory_update", FALSE),
                         "notify_testers", FALSE)))
       ELSE TransportCall("get", "/releases/")
    /\ UNCHANGED <<env, pvars, uvars, hvars>>

\* one HTTP request of the running Transport call
DistributeAttempt ==
    /\ pc \in DistributeSteps
    /\ AttemptStep
    /\ opsLog' = IF opsLog # <<>> /\ opsLog[Len(opsLog)] = pc THEN opsLog ELSE Append(opsLog, pc)
    /\ UNCHANGED <<stepsDone, posts, retryCalls, firstFailed, uploaded, finishCalls,
                   finishPosts, served, ubResult, waitLog>>
    /\ UNCHANGED <<env, pvars, uvars>>

\* time.sleep(10) of the attempt loop of release: versions.py:497-500
DistributeSleep ==
    /\ pc = "release"
    /\ sleeping
    /\ sleeping' = FALSE
    /\ sleeps' = Append(sleeps, 10)
    /\ attempt' = attempt + 1
    /\ UNCHANGED <<pc, create_release_upload_response, upload_metadata_response, binary_file,
                   chunk_numbers, unhandled_chunks, current, upload_end_response, result>>
    /\ UNCHANGED <<tvars, env, pvars, hvars>>

\* one pass of the attempt loop of release, and its return: versions.py:491-504
release ==
    /\ pc = "release"
    /\ Consume
    /\ LET oc == StepOutcome(FALSE)
           leaves == oc = "ok" \/ (oc = "not_ok" /\ attempt >= 2)
       IN  /\ IF oc = "except"
              THEN IF attempt < 2 THEN ExceptSleeps ELSE Ends(Raised(Caught))
              ELSE IF ~leaves THEN NextPass
              ELSE IF ~Decodes(tResult) THEN Ends(Raised(DeserializeException))
              ELSE Enter("release_details") /\ UNCHANGED result
           /\ stepsDone' = IF oc = "ok" THEN stepsDone \cup {"release"} ELSE stepsDone
    /\ UNCHANGED <<create_release_upload_response, upload_metadata_response, binary_file,
                   chunk_numbers, unhandled_chunks, current, upload_end_response>>
    /\ UNCHANGED <<env, pvars, opsLog, posts, retryCalls, firstFailed, uploaded, finishCalls,
                   finishPosts, served, ubResult, waitLog>>

\* release_details: versions.py:127-132, and the return of upload_and_release
release_details ==
    /\ pc = "release_details"
    /\ Consume
    /\ IF tPc = "raised" THEN Ends(Raised(tResult))
       ELSE IF ~Decodes(tResult) THEN Ends(Raised(DeserializeException))
       ELSE Ends(Returned("release-details"))
    /\ stepsDone' = IF tPc = "returned" /\ Decodes(tResult)
                    THEN stepsDone \cup {"release_details"} ELSE stepsDone
    /\ UNCHANGED <<create_release_upload_response, upload_metadata_response, binary_file,
                   chunk_numbers, unhandled_chunks, current, upload_end_response>>
    /\ UNCHANGED <<env, pvars, opsLog, posts, retryCalls, firstFailed, uploaded, finishCalls,
                   finishPosts, served, ubResult, waitLog>>

NextDistribute ==
    \/ Next
    \/ upload_and_release
    \/ DistributeRequest
    \/ DistributeAttempt
    \/ DistributeSleep
    \/ release
    \/ release_details

SpecDistribute == Init /\ [][NextDistribute]_vars

----------------------------------------------------------------------------
(* A caller of _wait_for_upload that waits as long as it takes.  Either    *)
(* the status resource reports uploadStarted and uploadFinished only and   *)
(* every poll is answered, or it can report every status and a poll may    *)
(* also fail; no run keeps an account, so a wait without end is a cycle.   *)

LivePollRequest == pc = "_wait_for_upload" /\ StepRequest

\* a pass of the loop that leaves it: a status that ends the wait was read,
\* or the poll failed
LeavesLoop == _wait_for_upload /\ pc' # "_wait_for_upload"

InitWaitLive ==
    /\ TransportIdle
    /\ UploadIdle
    /\ PagerIdle
    /\ chain = <<>>
    /\ org_name = "org"
    /\ app_name = "app"
    /\ __init__("token-1")
    /\ AnnotationIdle
    /\ DefaultArguments
    /\ \/ statuses = NonTerminalStatuses /\ answers = {AnswerOk}
       \/ statuses = UploadStatuses /\ answers = {AnswerOk, AnswerError, FailureConnection}
    /\ audit = FALSE
    /\ path = "file"

NextWaitLive ==
    \/ wait_for_upload_call
    \/ LivePollRequest
    \/ PollAttempt
    \/ Wait
    \/ _wait_for_upload
    \/ wait

\* the thread of the waiter runs on: a request is answered, a sleep ends, the
\* loop goes on; and a status resource that can report a status that ends
\* the wait does report one in the end
SpecWaitLive ==
    /\ InitWaitLive
    /\ [][NextWaitLive]_vars
    /\ WF_vars(LivePollRequest)
    /\ WF_vars(PollAttempt)
    /\ WF_vars(Wait)
    /\ WF_vars(_wait_for_upload)
    /\ WF_vars(wait)
    /\ SF_vars(LeavesLoop)

----------------------------------------------------------------------------
(* A caller of update_release *)

MaxDestinations == 1

\* DestinationId(name=..., identifier=...): models.py:404-406
DestinationIds == [name : Optional({"testers"}), identifier : Optional({"group-id"})]

\* the lists of destinations a request may hold
DestinationLists == UNION {[1..n -> DestinationIds] : n \in 0..MaxDestinations}

BuildInfos ==
    {BuildInfo(b, c, m) : b \in Optional({"main"}), c \in Optional({"hash"}),
                          m \in Optional({"message"})}

\* the requests a caller may build: every field set or not, a text field
\* also to the empty text, a flag also to False
ReleaseUpdateRequests ==
    {ReleaseUpdateRequest(n, m, d, b, t) :
        n \in Optional({"", "notes"}), m \in Optional({FALSE}),
        d \in Optional(DestinationLists), b \in Optional(BuildInfos),
        t \in Optional({FALSE, TRUE})}

\* the answers of the network to the PATCH
ReleaseAnswers == {AnswerOk, AnswerError, FailureConnection}

\* update_release is called: versions.py:603-608, or by a caller of its own
update_release_call ==
    /\ pc = "idle"
    /\ tPc = "idle"
    /\ Enter("update_release")
    /\ upload_end_response' = [type |-> "CommitUploadResponse",
                               upload_status |-> "readyToBePublished",
                               release_distinct_id |-> "release-id"]
    /\ UNCHANGED <<create_release_upload_response, upload_metadata_response, binary_file,
                   chunk_numbers, unhandled_chunks, current, result>>
    /\ UNCHANGED <<tvars, env, pvars, hvars>>

ReleaseRequest == pc = "update_release" /\ StepRequest

ReleaseAttempt == pc = "update_release" /\ UploadAttempt

ReleaseSleep == pc = "update_release" /\ StepSleep

InitRelease ==
    /\ TransportIdle
    /\ UploadIdle
    /\ PagerIdle
    /\ chain = <<>>
    /\ org_name = "org"
    /\ app_name = "app"
    /\ __init__("token-1")
    /\ AnnotationIdle
    /\ file_name = <<"app", ".", "apk">>
    /\ release_update_request \in ReleaseUpdateRequests
    /\ answers = ReleaseAnswers
    /\ statuses = UploadStatuses
    /\ audit = FALSE
    /\ path = "file"

NextRelease ==
    \/ update_release_call
    \/ ReleaseRequest
    \/ ReleaseAttempt
    \/ Wait
    \/ ReleaseSleep
    \/ update_release

SpecRelease == InitRelease /\ [][NextRelease]_vars

----------------------------------------------------------------------------
(* One step of the upload against a network that keeps failing *)

\* an error status whose body holds a connection-failure signature
AnswerErrorTimedOut ==
    [kind |-> "response", status |-> 500, format |-> "error_json", text |-> "Operation timed out"]

\* what the network does in a run
LayerScenarios ==
    {{FailureConnection}, {AnswerError}, {AnswerErrorTimedOut}, {AnswerOk, AnswerError},
     {AnswerOk, AnswerError, FailureConnection}}

step_call ==
    /\ pc = "idle"
    /\ tPc = "idle"
    /\ \E step \in LayeredSteps : Enter(step)
    /\ create_release_upload_response' = Ticket
    /\ upload_end_response' = [type |-> "CommitUploadResponse",
                               upload_status |-> "readyToBePublished",
                               release_distinct_id |-> "release-id"]
    /\ UNCHANGED <<upload_metadata_response, binary_file, chunk_numbers, unhandled_chunks,
                   current, result>>
    /\ UNCHANGED <<tvars, env, pvars, hvars>>

LayerRequest == pc \in LayeredSteps /\ StepRequest

LayerAttempt == pc \in LayeredSteps /\ UploadAttempt

LayerSleep == pc \in LayeredSteps /\ StepSleep

InitLayers ==
    /\ TransportIdle
    /\ UploadIdle
    /\ PagerIdle
    /\ chain = <<>>
    /\ org_name = "org"
    /\ app_name = "app"
    /\ __init__("token-1")
    /\ AnnotationIdle
    /\ DefaultArguments
    /\ answers \in LayerScenarios
    /\ statuses = UploadStatuses
    /\ audit = TRUE
    /\ path = "file"

NextLayers ==
    \/ step_call
    \/ LayerRequest
    \/ LayerAttempt
    \/ Wait
    \/ LayerSleep
    \/ get_upload_url
    \/ commit_upload
    \/ update_release

SpecLayers == InitLayers /\ [][NextLayers]_vars

----------------------------------------------------------------------------
(* A caller of set_upload_metadata *)

\* what may stand after the last "." of a file name
Extensions == DOMAIN MIME_TYPES \cup {"APK", "zip", "ipa"}

\* the file names: no extension, a bare ".", every extension; after a plain
\* stem, after a stem with an extension of its own, and after nothing or a
\* "." (a name that begins with its only dots has no extension)
FileNames ==
    {stem \o ending :
        stem \in {<<>>, <<"app">>, <<"app", ".", "apk">>, <<".">>},
        ending \in {<<>>, <<".">>} \cup {<<".", e>> : e \in Extensions}}

\* set_upload_metadata is called: versions.py:583-586, or by a caller of its own
set_upload_metadata_call ==
    /\ pc = "idle"
    /\ tPc = "idle"
    /\ Enter("set_upload_metadata")
    /\ create_release_upload_response' = Ticket
    /\ UNCHANGED <<upload_metadata_response, binary_file, chunk_numbers, unhandled_chunks,
                   current, upload_end_response, result>>
    /\ UNCHANGED <<tvars, env, pvars, hvars>>

MetadataRequest == pc = "set_upload_metadata" /\ StepRequest

MetadataAttempt == pc = "set_upload_metadata" /\ UploadAttempt

MetadataSleep == pc = "set_upload_metadata" /\ StepSleep

InitMetadata ==
    /\ TransportIdle
    /\ UploadIdle
    /\ PagerIdle
    /\ chain = <<>>
    /\ org_name = "org"
    /\ app_name = "app"
    /\ __init__("token-1")
    /\ AnnotationIdle
    /\ file_name \in FileNames
    /\ release_update_request = update_request(Some("notes"), None, Some("hash"), None)
    /\ answers = ReleaseAnswers
    /\ statuses = UploadStatuses
    /\ audit = FALSE
    /\ path \in {"file", "directory"}

NextMetadata ==
    \/ set_upload_metadata_call
    \/ MetadataRequest
    \/ MetadataAttempt
    \/ Wait
    \/ MetadataSleep
    \/ set_upload_metadata

SpecMetadata == InitMetadata /\ [][NextMetadata]_vars

----------------------------------------------------------------------------
(* A consumer of a listing *)

\* the answers the network gives to the GET of a page
PagerAnswers == {AnswerOk, AnswerGarbled, AnswerError, FailureOther, FailureConnection}

InitPager ==
    /\ TransportIdle
    /\ UploadIdle
    /\ PagerIdle
    /\ org_name = "org"
    /\ app_name = "app"
    /\ __init__("token-1")
    /\ AnnotationIdle
    /\ DefaultArguments
    /\ chain \in Chains
    /\ answers = PagerAnswers
    /\ statuses = UploadStatuses
    /\ audit = FALSE
    /\ path = "file"

NextPager ==
    \/ get_error_groups
    \/ errors_in_group
    \/ next
    \/ PagerRequest
    \/ PagerAttempt
    \/ Wait
    \/ deserialize_page

SpecPager == InitPager /\ [][NextPager]_vars

----------------------------------------------------------------------------
(* A listing about to follow a nextLink: the generator has handed over the *)
(* only item of the first page, and the page names a next one              *)

MaxLinkLen == 6

\* the tokens a nextLink is made of
LinkTokens == {"/", "api", "org", "app"}

\* the nextLink texts a server may send
Links == UNION {[1..n -> LinkTokens] : n \in 0..MaxLinkLen}

\* the names an organization and an app may have
OrgNames == {"org", "api"}
AppNames == {"app", "api"}

InitPolish ==
    /\ TransportIdle
    /\ UploadIdle
    /\ answers = PagerAnswers
    /\ statuses = UploadStatuses
    /\ audit = FALSE
    /\ path = "file"
    /\ org_name \in OrgNames
    /\ app_name \in AppNames
    /\ __init__("token-1")
    /\ AnnotationIdle
    /\ DefaultArguments
    /\ \E link \in Links :
            error_groups = [nextLink |-> Some(link), errorGroups |-> Some(Items(1, 1))]
    /\ chain = <<error_groups>>
    /\ gPc = "suspended"
    /\ request_url = <<API_BASE_URL, "/", "v0.1", "/", "apps", "/">>
                        \o OrgApp(org_name, app_name)
                        \o <<"/", "errors", "/", "errorGroups", "?">>
    /\ page = 1
    /\ pending = <<>>
    /\ gResult = None
    /\ pagerLog = <<[ev |-> "next"], [ev |-> "GET", page |-> 1, ok |-> TRUE],
                    [ev |-> "item", item |-> <<1, 1>>]>>

NextPolish == next

SpecPolish == InitPolish /\ [][NextPolish]_vars

----------------------------------------------------------------------------
(* set_annotation: crashes.py *)

\* class ErrorGroupState(enum.Enum): the values of its members
ErrorGroupState == {"Open", "Closed", "Ignored"}

\* the `state` texts a group of the service may carry
StateTexts == ErrorGroupState \cup {"Archived"}

\* deserialize of the state field: the member with that value, or an error
parse_ErrorGroupState(text) ==
    IF text \in ErrorGroupState
    THEN Returned([type |-> "ErrorGroupState", value |-> text])
    ELSE Raised(DeserializeException)

\* the annotation argument
annotation == "note"

\* request_url of both requests
GroupUrl == "https://api.appcenter.ms/v0.1/apps/org/app/errors/errorGroups/group-id"

\* mutant: the PATCH always opens the group
PatchData_open(member, text) == [state |-> "Open", annotation |-> text]

\* data={"state": state.value, "annotation": annotation}
PatchData(member, text) == [state |-> member.value, annotation |-> text]

http_patch_call ==
    TransportRequest("http_patch", GroupUrl, EmptyDict, Some(PatchData(state'.value, annotation)))

\* the call, up to its first request
set_annotation ==
    /\ aPc = "idle"
    /\ \E argument \in Optional({parse_ErrorGroupState(t).value : t \in ErrorGroupState}) :
        /\ state' = argument
        /\ annotationLog' = <<[ev |-> "call", state |-> argument]>>
        /\ IF argument = None
           THEN /\ TransportRequest("http_get", GroupUrl, EmptyDict, None)
                /\ aPc' = "get"
           ELSE /\ http_patch_call
                /\ aPc' = "patch"
    /\ UNCHANGED aResult
    /\ UNCHANGED <<setting, stepLog, uvars, hvars, pvars>>

\* one HTTP request of the running http_get or http_patch
AnnotationAttempt ==
    /\ aPc \in {"get", "patch"}
    /\ AttemptStep
    /\ annotationLog' = Append(annotationLog,
                               [ev |-> "request",
                                request |-> HttpRequest(tMethod, tUrl, tQuery, tData)])
    /\ UNCHANGED <<aPc, state, aResult>>
    /\ UNCHANGED <<setting, stepLog, uvars, hvars, pvars>>

\* http_get has ended: group = deserialize(ErrorGroup, response.json()),
\* state = group.state, and the call of http_patch
group_state ==
    /\ aPc = "get"
    /\ tPc \in {"returned", "raised"}
    /\ IF tPc = "raised" THEN
            /\ Consume
            /\ aPc' = "ended"
            /\ aResult' = Raised(tResult)
            /\ UNCHANGED <<state, annotationLog>>
       ELSE IF ~Decodes(tResult) THEN
            /\ Consume
            /\ aPc' = "ended"
            /\ aResult' = Raised(JSONDecodeError)
            /\ UNCHANGED <<state, annotationLog>>
       ELSE \E text \in StateTexts :
            LET member == parse_ErrorGroupState(text) IN
            IF member.failed THEN
                /\ Consume
                /\ aPc' = "ended"
                /\ aResult' = member
                /\ UNCHANGED <<state, annotationLog>>
            ELSE
                /\ state' = Some(member.value)
                /\ annotationLog' = Append(annotationLog, [ev |-> "group", state |-> text])
                /\ tPc' = "request"
                /\ tMethod' = "http_patch"
                /\ tUrl' = GroupUrl
                /\ tQuery' = EmptyDict
                /\ tData' = Some(PatchData(member.value, annotation))
                /\ tAttempt' = 0
                /\ tHist' = <<>>
                /\ tSent' = <<>>
                /\ tWaits' = <<>>
                /\ tResult' = None
                /\ aPc' = "patch"
                /\ UNCHANGED aResult
    /\ UNCHANGED <<setting, stepLog, uvars, hvars, pvars>>

\* http_patch has ended, and with it set_annotation
annotation_set ==
    /\ aPc = "patch"
    /\ Consume
    /\ aPc' = "ended"
    /\ aResult' = IF tPc = "raised" THEN Raised(tResult) ELSE Returned(None)
    /\ UNCHANGED <<state, annotationLog>>
    /\ UNCHANGED <<setting, stepLog, uvars, hvars, pvars>>

InitAnnotation ==
    /\ TransportIdle
    /\ UploadIdle
    /\ PagerIdle
    /\ org_name = "org"
    /\ app_name = "app"
    /\ __init__("token-1")
    /\ AnnotationIdle
    /\ DefaultArguments
    /\ chain = <<>>
    /\ answers = PagerAnswers
    /\ statuses = UploadStatuses
    /\ audit = FALSE
    /\ path = "file"

NextAnnotation ==
    \/ set_annotation
    \/ AnnotationAttempt
    \/ Wait
    \/ group_state
    \/ annotation_set

SpecAnnotation == InitAnnotation /\ [][NextAnnotation]_vars

----------------------------------------------------------------------------
(* A client that calls one Transport method *)

ClientCall ==
    /\ \E method \in Methods, url \in Urls : TransportCall(method, url)
    /\ UNCHANGED <<env, pvars, uvars, hvars>>

ClientAttempt == AttemptStep /\ UNCHANGED <<env, pvars, uvars, hvars>>

InitTransport ==
    /\ TransportIdle
    /\ UploadIdle
    /\ PagerIdle
    /\ chain = <<>>
    /\ org_name = "org"
    /\ app_name = "app"
    /\ \E tok \in Tokens : __init__(tok)
    /\ AnnotationIdle
    /\ DefaultArguments
    /\ answers = AllOutcomes
    /\ statuses = UploadStatuses
    /\ audit = FALSE
    /\ path = "file"

NextTransport == ClientCall \/ ClientAttempt \/ Wait

SpecTransport == InitTransport /\ [][NextTransport]_vars

----------------------------------------------------------------------------
(* Claims about upload_build (Spec)                                        *)

\* the order of the network operations of one upload
Order ==
    <<"begin", "set_metadata", "chunk_first", "chunk_retry", "finish", "commit", "poll",
      "finalize">>

Rank(kind) == CHOOSE i \in DOMAIN Order : Order[i] = kind

\* the steps that must have completed before an operation of the kind
Requires(kind) ==
    CASE kind = "begin" -> {}
      [] kind = "set_metadata" -> {"get_upload_url"}
      [] kind \in {"chunk_first", "chunk_retry", "finish"} ->
            {"get_upload_url", "set_upload_metadata"}
      [] kind = "commit" ->
            {"get_upload_url", "set_upload_metadata", "_mark_upload_finished"}
      [] kind = "poll" ->
            {"get_upload_url", "set_upload_metadata", "_mark_upload_finished",
             "commit_upload"}
      [] kind = "finalize" ->
            {"get_upload_url", "set_upload_metadata", "_mark_upload_finished",
             "commit_upload", "_wait_for_upload"}

LastOp == opsLog[Len(opsLog)]

\* C1: the network operations of one upload_build are issued in the order
\* begin, set metadata, first-pass chunk POSTs, retry-pass chunk POSTs, mark
\* finished, commit, status polls, finalize, and never interleave (once an
\* operation of a later kind is issued none of an earlier kind follows); an
\* operation is issued only when the steps before it have completed; a
\* retry-pass chunk POST is issued only when the first pass has taken every
\* chunk of the chunk list, and mark finished only when the retry queue is empty.
C1_StepsInOrder ==
    /\ \A i, j \in DOMAIN opsLog : i < j => Rank(opsLog[i]) < Rank(opsLog[j])
    /\ \A i \in DOMAIN opsLog : Requires(opsLog[i]) \subseteq stepsDone
    /\ (opsLog # <<>> /\ Rank(LastOp) >= Rank("chunk_retry")) => chunk_numbers = <<>>
    /\ (opsLog # <<>> /\ Rank(LastOp) >= Rank("finish")) => unhandled_chunks = <<>>

\* an upload that went through every kind of operation and returned
C1_Witness == pc = "done" /\ ~result.failed /\ opsLog = Order

\* the kinds of network operations issued so far
Issued == {opsLog[i] : i \in DOMAIN opsLog}

\* C15: the finalize PATCH is issued only when polling has yielded a release
\* identifier: never after a wait that ended with uploadCanceled, nor after a
\* terminal response without release_distinct_id.
C15_FinalizeNeedsReleaseId ==
    "finalize" \in Issued =>
        /\ upload_end_response.upload_status # "uploadCanceled"
        /\ upload_end_response.release_distinct_id # "None"

\* the step function that issues the operations of a kind
StepOf(kind) ==
    CASE kind = "begin" -> "get_upload_url"
      [] kind = "set_metadata" -> "set_upload_metadata"
      [] kind \in {"chunk_first", "chunk_retry"} -> "_upload_chunk"
      [] kind = "finish" -> "_mark_upload_finished"
      [] kind = "commit" -> "commit_upload"
      [] kind = "poll" -> "_wait_for_upload"
      [] kind = "finalize" -> "update_release"

\* upload_build has raised
Failed == pc = "done" /\ result.failed

\* C16: outside the chunk loop a step that fails ends upload_build: when
\* begin, set metadata, mark finished, commit, polling or finalize has issued
\* its operations without completing, the step is still running or its error
\* has reached the caller; an operation of a step is issued only when every
\* step before it has completed; after the failure nothing is in flight; and
\* without a set-metadata result there is no chunk POST, no finish POST and no
\* commit PATCH.
C16_AllOrNothing ==
    /\ \A i \in DOMAIN opsLog : Requires(opsLog[i]) \subseteq stepsDone
    /\ (opsLog # <<>> /\ LastOp \notin {"chunk_first", "chunk_retry"}
            /\ StepOf(LastOp) \notin stepsDone) => (pc = StepOf(LastOp) \/ Failed)
    /\ Failed => (tPc = "idle" /\ ~sleeping)
    /\ "set_upload_metadata" \notin stepsDone =>
            /\ upload_metadata_response = None
            /\ Issued \cap {"chunk_first", "chunk_retry", "finish", "commit", "poll",
                             "finalize"} = {}

\* the commit PATCH failed three times after a complete chunk upload
C16_Witness ==
    /\ Failed
    /\ opsLog = <<"begin", "set_metadata", "chunk_first", "finish", "commit">>

\* the attempt whose Transport call has ended failed: the call raised, or (in
\* the steps that decode inside their try block) the body did not decode
AttemptFailed ==
    \/ tPc = "raised"
    \/ /\ pc \in {"set_upload_metadata", "_upload_chunk", "_mark_upload_finished"}
       /\ tResult.format # "payload_json"

\* a step function takes the result of the Transport call of an attempt
AttemptEnds == pc \in RetrySteps /\ tPc \in {"returned", "raised"} /\ tPc' = "idle"

\* C18: each of the six step functions makes at most 3 attempts (attempt 0, 1,
\* 2); after a failed attempt 0 or 1 it sleeps 10 seconds and makes the next
\* attempt; after a failed attempt 2 it does not sleep and the failure goes
\* to its caller (upload_build raises; for _upload_chunk the caller is
\* direct_upload_chunk, which queues the chunk); an attempt that succeeds
\* ends the loop: no sleep and no further attempt of the step.
C18_StepAttempts ==
    /\ [](pc \in RetrySteps =>
            /\ attempt \in 0..2
            /\ sleeps = [i \in 1..attempt |-> 10])
    /\ [][/\ AttemptEnds =>
                IF AttemptFailed
                THEN IF attempt < 2
                     THEN pc' = pc /\ sleeping' /\ attempt' = attempt /\ result' = result
                     ELSE /\ ~sleeping'
                          /\ sleeps' = <<10, 10>>
                          /\ IF pc = "_upload_chunk"
                             THEN /\ pc' \in {"first_pass", "retry_pass"}
                                  /\ Len(unhandled_chunks') = Len(unhandled_chunks) + 1
                             ELSE pc' = "done" /\ result'.failed
                ELSE pc' # pc /\ ~sleeping'
          /\ (pc \in RetrySteps /\ sleeping) =>
                /\ ~sleeping'
                /\ pc' = pc
                /\ sleeps' = Append(sleeps, 10)
                /\ attempt' = attempt + 1]_vars

\* the third attempt of the commit PATCH failed and upload_build raised
C18_Witness ==
    /\ Failed
    /\ opsLog # <<>>
    /\ LastOp = "commit"
    /\ attempt = 2
    /\ sleeps = <<10, 10>>

----------------------------------------------------------------------------
(* Claims about the two uploads of a local file (SpecUploads)              *)

\* C17: when nothing exists at the local path, upload_build and
\* upload_symbols raise FileNotFoundError before any network call: no
\* Transport call is made and no HTTP request is issued.
C17_MissingFileNoRequest ==
    (path = "missing" /\ pc # "idle") =>
        /\ pc = "done"
        /\ result.failed
        /\ result.value.type = "FileNotFoundError"
        /\ opsLog = <<>>
        /\ tPc = "idle"
        /\ tAttempt = 0

\* upload_build has raised on a missing binary
C17_Witness ==
    /\ path = "missing"
    /\ result = Raised([type |-> "FileNotFoundError", text |-> "Could not find binary: "])

----------------------------------------------------------------------------
(* Claims about upload_binary (SpecBinary)                                 *)

UbEnded == ubResult # "none"

\* the chunk numbers of the metadata chunk list
ChunkSet ==
    IF upload_metadata_response = None THEN {}
    ELSE {upload_metadata_response.chunk_list[i] :
            i \in DOMAIN upload_metadata_response.chunk_list}

\* C2: when a chunk has failed all of its attempts in the first pass and again
\* in the retry pass (here: in each of the 3 uploads of its retry budget),
\* upload_binary returns False and mark finished is never called.
C2_ReturnsFalseAfterFailedRetries ==
    (UbEnded /\ \E k \in firstFailed : retryCalls[k] > 3)
        => (ubResult = "False" /\ finishCalls = 0 /\ finishPosts = 0)

\* C3: a chunk that keeps failing is uploaded from the retry queue at most 3
\* times (its attempt budget) and is then abandoned.
C3_RetryBudgetBounded == \A k \in ChunkNumbers : retryCalls[k] <= 3

\* The endpoint rejects every first-pass POST of chunk K, accepts K's POSTs of
\* the retry pass, and accepts every POST of the other chunks.
Scenario(K) ==
    /\ upload_metadata_response # None
    /\ K \in ChunkSet
    /\ served[K].first = {"fail"}
    /\ served[K].retry \subseteq {"ok"}
    /\ \A j \in ChunkSet \ {K} : served[j].first \subseteq {"ok"} /\ served[j].retry \subseteq {"ok"}

\* C4, as stated: in that scenario upload_binary returns True, the finish POST
\* is sent exactly once, every other chunk is POSTed exactly once and chunk K
\* more often than each of them.
C4_AsStated ==
    \A K \in ChunkNumbers :
        (UbEnded /\ Scenario(K)) =>
            /\ ubResult = "True"
            /\ finishPosts = 1
            /\ \A j \in ChunkSet \ {K} : posts[j] = 1 /\ posts[K] > posts[j]

\* C4, amended: in that scenario upload_binary never returns False: it calls
\* mark finished exactly once and returns True, or raises what mark finished
\* raised; every other chunk is POSTed exactly once, and chunk K at least 4
\* times (3 failed attempts, then the retry).
C4_RetriedChunkSucceeds ==
    \A K \in ChunkNumbers :
        (UbEnded /\ Scenario(K)) =>
            /\ ubResult \in {"True", "raised"}
            /\ ubResult = "True" <=> "_mark_upload_finished" \in stepsDone
            /\ finishCalls = 1
            /\ finishPosts >= 1
            /\ K \in uploaded
            /\ retryCalls[K] = 1
            /\ posts[K] >= 4
            /\ \A j \in ChunkSet \ {K} : posts[j] = 1 /\ j \in uploaded /\ retryCalls[j] = 0

\* two chunks, the second one rejected in the first pass and accepted on retry
C4_Witness ==
    /\ ubResult = "True"
    /\ ChunkSet = {1, 2}
    /\ Scenario(2)
    /\ finishPosts = 1

\* C5, as stated: the finish POST is sent only when every chunk of the chunk
\* list has had a successful _upload_chunk call, and exactly once whenever
\* chunk upload as a whole succeeded.
C5_AsStated ==
    /\ finishPosts >= 1 => ChunkSet \subseteq uploaded
    /\ finishPosts <= 1
    /\ (UbEnded /\ upload_metadata_response # None /\ ChunkSet \subseteq uploaded)
            => finishPosts = 1

\* C5, amended: mark finished is called, and a finish POST sent, only in a
\* state where every chunk of the chunk list has had a successful _upload_chunk
\* call and nothing is left to upload; whenever chunk upload as a whole
\* succeeded mark finished is called exactly once, whether or not the retry
\* pass was needed, and sends at least one finish POST.
C5_FinishAfterAllChunks ==
    /\ (finishCalls >= 1 \/ finishPosts >= 1) =>
            /\ upload_metadata_response # None
            /\ ChunkSet \subseteq uploaded
            /\ chunk_numbers = <<>>
            /\ unhandled_chunks = <<>>
    /\ finishCalls <= 1
    /\ finishPosts >= 1 => finishCalls = 1
    /\ (UbEnded /\ upload_metadata_response # None /\ ChunkSet \subseteq uploaded)
            => (finishCalls = 1 /\ finishPosts >= 1)

\* an upload that needed the retry pass and whose finish POST was repeated
C5_Witness ==
    /\ ubResult = "True"
    /\ firstFailed # {}
    /\ ChunkSet = {1, 2}
    /\ finishPosts >= 2

----------------------------------------------------------------------------
(* Claims about the Transport methods (SpecTransport)                      *)

TransportDone == tPc \in {"returned", "raised"}

LastAnswer == tHist[Len(tHist)]

Is202(o) == o.kind = "response" /\ o.status = 202

\* a failure of the connection: an exception with one of the four texts
IsConnectionFailure(o) ==
    /\ o.kind = "exception"
    /\ o.text \in {"Operation timed out", "Connection aborted.", "bad handshake: ",
                   "Failed to establish a new connection"}

IsHttpError(o) == o.kind = "response" /\ (o.status < 200 \/ o.status >= 300)

Verb(method) ==
    CASE method = "get" -> "GET"
      [] method = "patch" -> "PATCH"
      [] method = "delete" -> "DELETE"
      [] method = "azure_blob_upload" -> "PUT"
      [] OTHER -> "POST"

HttpErrorTypes == {"AppCenterHTTPException", "AppCenterDecodedHTTPException"}

\* C6: a GET answered 202 on every attempt makes exactly 3 requests, with the
\* fixed wait between them, and then raises; 202 answers followed by a 200
\* return the 200 response.
C6_Get202RetriedThreeTimes ==
    (tMethod = "get" /\ TransportDone) =>
        /\ (\A i \in DOMAIN tHist : Is202(tHist[i])) =>
                (tPc = "raised" /\ tAttempt = 3 /\ tWaits = <<10, 10>>)
        /\ (/\ Len(tHist) >= 2
            /\ \A i \in 1..(Len(tHist) - 1) : Is202(tHist[i])
            /\ LastAnswer.kind = "response" /\ LastAnswer.status = 200) =>
                (tPc = "returned" /\ tResult.status_code = 200)

\* C7: a response with a status in [200,300) is returned unchanged (but for
\* 202 on GET), and a response with any other status is never returned: the
\* call raises a typed HTTP error carrying it.
C7_SuccessStatusReturned ==
    (TransportDone /\ LastAnswer.kind = "response") =>
        LET response == Response(Verb(tMethod), tUrl, LastAnswer) IN
        IF response.status_code >= 200 /\ response.status_code < 300
        THEN (tMethod = "get" /\ response.status_code = 202)
                \/ (tPc = "returned" /\ tResult = response)
        ELSE tPc = "raised" /\ tResult.type \in HttpErrorTypes /\ tResult.response = response

\* C8: a call never issues more than 3 requests; there is exactly one wait, of
\* 10 seconds, between two consecutive attempts and none elsewhere; a call
\* whose attempts all fail with a connection failure makes exactly 3 attempts
\* and then fails; an attempt that succeeds is the last one.
C8_ConnectionRetry ==
    /\ tAttempt <= 3
    /\ \A i \in DOMAIN tWaits : tWaits[i] = 10
    /\ Len(tWaits) = IF tPc \in {"idle", "request"} THEN tAttempt ELSE tAttempt - 1
    /\ (TransportDone /\ \A i \in DOMAIN tHist : IsConnectionFailure(tHist[i])) =>
            (tPc = "raised" /\ tAttempt = 3 /\ tWaits = <<10, 10>>)
    /\ \A i \in DOMAIN tHist :
            (/\ tHist[i].kind = "response"
             /\ \/ tHist[i].status = 200
                \/ tMethod # "get" /\ tHist[i].status >= 200 /\ tHist[i].status < 300) =>
                (i = Len(tHist) /\ tPc = "returned")

\* three connection failures in a row
C8_Witness ==
    /\ tPc = "raised"
    /\ tMethod = "post"
    /\ tAttempt = 3
    /\ \A i \in DOMAIN tHist : IsConnectionFailure(tHist[i])

\* C9: a call answered with an HTTP error status makes exactly one request and
\* raises the typed HTTP error.
C9_HttpErrorNotRetried ==
    \A i \in DOMAIN tHist :
        IsHttpError(tHist[i]) =>
            (i = 1 /\ tAttempt = 1 /\ tPc = "raised" /\ tResult.type \in HttpErrorTypes)

\* C10: when a call has used up its 3 attempts, the error its caller gets is
\* the error of the last attempt itself.
C10_LastErrorPropagates ==
    (tPc = "raised" /\ tAttempt = 3) =>
        /\ tResult.type \in HttpErrorTypes \cup {"RequestException"}
        /\ tResult = MethodBody(tMethod, tUrl, LastAnswer).value

\* the HTTP error the last attempt of the call raised
RaisedError == IF tResult.type = "RetryError" THEN tResult.last_attempt.value ELSE tResult

\* C11: create_exception never raises: a call that ends on an error response
\* raises an HTTP error value carrying that response, which is the decoded
\* form, with the code and message of the body, exactly when the body is JSON
\* with code and message, and the undecoded form in every other case.
C11_ClassificationTotal ==
    (tPc = "raised" /\ LastAnswer.kind = "response") =>
        LET response == Response(Verb(tMethod), tUrl, LastAnswer) IN
        /\ RaisedError.type \in HttpErrorTypes
        /\ RaisedError.response = response
        /\ RaisedError.type = "AppCenterDecodedHTTPException" <=> LastAnswer.format = "error_json"
        /\ RaisedError.type = "AppCenterDecodedHTTPException" =>
                RaisedError.error = [code |-> "Error", message |-> LastAnswer.text]

\* a 404 whose body decodes to code and message
C11_Witness ==
    /\ tPc = "raised"
    /\ tResult.type = "AppCenterDecodedHTTPException"
    /\ tResult.response.status_code = 404

----------------------------------------------------------------------------
(* Claims about _wait_for_upload (SpecWait)                                *)

\* the sleeps recorded in the log
LoggedSleeps == Len(SelectSeq(waitLog, LAMBDA e : e = "sleep"))

\* every GET so far was answered with an upload status that is non-terminal,
\* readyToBePublished or uploadCanceled
StatusesOnly ==
    \A i \in DOMAIN waitLog :
        waitLog[i] \in {"GET", "sleep", "uploadStarted", "uploadFinished",
                        "readyToBePublished", "uploadCanceled"}

\* C12: while the polls read uploadStarted or uploadFinished and then
\* readyToBePublished or uploadCanceled, the wait is a sequence of (GET,
\* status, sleep of 2 seconds) rounds: one GET per poll, one sleep after each
\* non-terminal status and before the next GET, none before the first poll;
\* the terminal status ends it: the waiter returns that response, with no
\* sleep and no GET after it (n + 1 GETs and n sleeps for n non-terminal polls).
C12_PollsAndSleeps ==
    StatusesOnly =>
        /\ \A i \in DOMAIN waitLog :
                /\ i % 3 = 1 => waitLog[i] = "GET"
                /\ i % 3 = 2 => waitLog[i] \notin {"GET", "sleep"}
                /\ i % 3 = 0 =>
                        waitLog[i] = "sleep" /\ waitLog[i - 1] \in {"uploadStarted", "uploadFinished"}
                /\ waitLog[i] \in {"readyToBePublished", "uploadCanceled"} =>
                        /\ i = Len(waitLog)
                        /\ pc = "update_release"
                        /\ ~sleeping
                        /\ upload_end_response.upload_status = waitLog[i]
                /\ (i = Len(waitLog) /\ waitLog[i] \in {"uploadStarted", "uploadFinished"}) =>
                        (pc = "_wait_for_upload" /\ sleeping)
        /\ pc = "_wait_for_upload" => sleeps = [i \in 1..LoggedSleeps |-> 2]

\* uploadStarted, uploadFinished, readyToBePublished: returned on the third poll
C12_Witness ==
    /\ pc = "update_release"
    /\ waitLog = <<"GET", "uploadStarted", "sleep", "GET", "uploadFinished", "sleep",
                   "GET", "readyToBePublished">>

\* C13: every upload status a poll reads is classified, and the first one that
\* is not uploadStarted or uploadFinished ends the wait: uploadCanceled and
\* readyToBePublished return the response; malwareDetected and error raise;
\* a status outside the six known ones raises the unexpected-status error;
\* no GET and no sleep follows that poll.
C13_ClassificationEndsPolling ==
    \A i \in DOMAIN waitLog :
        LET status == waitLog[i] IN
        (status \in UploadStatuses /\ status \notin {"uploadStarted", "uploadFinished"}) =>
            /\ i = Len(waitLog)
            /\ ~sleeping
            /\ tPc = "idle"
            /\ status \in {"uploadCanceled", "readyToBePublished"} =>
                    /\ pc = "update_release"
                    /\ result = None
                    /\ upload_end_response.upload_status = status
            /\ status = "malwareDetected" =>
                    /\ pc = "done"
                    /\ result = Raised([type |-> "Exception",
                                        text |-> "Malware detected in uploaded binary"])
            /\ status = "error" => (pc = "done" /\ result.failed)
            /\ status \notin {"uploadCanceled", "readyToBePublished", "malwareDetected", "error"} =>
                    /\ pc = "done"
                    /\ result = Raised([type |-> "Exception", text |-> "Unexpected status: "])

\* malwareDetected read by the second poll
C13_Witness ==
    /\ pc = "done"
    /\ result.failed
    /\ waitLog = <<"GET", "uploadStarted", "sleep", "GET", "malwareDetected">>

\* C14: a poll that yields a non-ok HTTP response, or a body that does not
\* decode, does not end the wait: the waiter sleeps 2 seconds and polls again,
\* and no error reaches the caller.
C14_FailedReadKeepsWaiting ==
    \A i \in DOMAIN waitLog :
        waitLog[i] \in {"http error", "not ok", "undecodable"} =>
            IF i < Len(waitLog) THEN waitLog[i + 1] = "sleep"
            ELSE pc = "_wait_for_upload" /\ sleeping /\ result = None

----------------------------------------------------------------------------
(* Claims about the listings (SpecPager)                                   *)

\* the items handed to the consumer, in order
Yielded ==
    LET events == SelectSeq(pagerLog, LAMBDA e : e.ev = "item")
    IN  [i \in DOMAIN events |-> events[i].item]

\* the pages of the GET requests, in order
PagesRequested ==
    LET events == SelectSeq(pagerLog, LAMBDA e : e.ev = "GET")
    IN  [i \in DOMAIN events |-> events[i].page]

\* every GET was answered with a response
AllGetsOk == \A i \in DOMAIN pagerLog : pagerLog[i].ev = "GET" => pagerLog[i].ok

\* the items of the pages 1..k of the server, in server order
RECURSIVE ItemsUpTo(_)
ItemsUpTo(k) ==
    IF k = 0 THEN <<>>
    ELSE ItemsUpTo(k - 1)
            \o (IF chain[k].errorGroups = None THEN <<>> ELSE chain[k].errorGroups.value)

\* C19: a listing consumed to its end, every page fetched at the first
\* request, has yielded exactly the items of the server's pages in server
\* order, with exactly one GET per page, in the order of the pages, and ended
\* at the first page without nextLink; a first page without nextLink gives
\* that page's items and a single GET.
C19_AllPagesInOrder ==
    (gPc = "finished" /\ AllGetsOk) =>
        /\ Yielded = ItemsUpTo(Len(chain))
        /\ PagesRequested = [k \in 1..Len(chain) |-> k]
        /\ error_groups = chain[Len(chain)]
        /\ error_groups.nextLink = None
        /\ \A k \in 1..(Len(chain) - 1) : chain[k].nextLink # None
        /\ \A k \in 1..Len(chain) : chain[k].errorGroups # None
        /\ Len(chain) = 1 => (Yielded = ItemsUpTo(1) /\ Len(PagesRequested) = 1)

\* two pages of two items each, consumed to the end
C19_Witness ==
    /\ gPc = "finished"
    /\ AllGetsOk
    /\ Len(chain) = 2
    /\ Yielded = <<<<1, 1>>, <<1, 2>>, <<2, 1>>, <<2, 2>>>>

\* C20: the generator fetches nothing ahead: a GET is issued only inside a
\* next() call of the consumer that no item has answered yet, and the GET of
\* a page only when every item of the pages before it has been handed over;
\* when an item is handed over no later page has been requested, and while
\* the consumer holds an item no request is in flight.
C20_NoPrefetch ==
    /\ \A i \in DOMAIN pagerLog :
            pagerLog[i].ev = "GET" =>
                /\ \E h \in 1..(i - 1) :
                        /\ pagerLog[h].ev = "next"
                        /\ \A m \in (h + 1)..(i - 1) : pagerLog[m].ev = "GET"
                /\ \A q \in 1..(pagerLog[i].page - 1) :
                        chain[q].errorGroups # None =>
                            \A j \in DOMAIN chain[q].errorGroups.value :
                                \E h \in 1..(i - 1) :
                                    pagerLog[h] = [ev |-> "item", item |-> <<q, j>>]
    /\ \A i \in DOMAIN pagerLog :
            pagerLog[i].ev = "item" =>
                \A h \in 1..(i - 1) :
                    pagerLog[h].ev = "GET" => pagerLog[h].page <= pagerLog[i].item[1]
    /\ gPc \in {"created", "suspended"} => tPc = "idle"
    /\ gPc = "created" => pagerLog = <<>>

\* the consumer holds the first of two items of page 1: page 2 is not fetched
C20_Witness ==
    /\ gPc = "suspended"
    /\ Len(chain) = 2
    /\ pagerLog = <<[ev |-> "next"], [ev |-> "GET", page |-> 1, ok |-> TRUE],
                    [ev |-> "item", item |-> <<1, 1>>]>>
    /\ pending = <<<<1, 2>>>>

\* the fetch of a page has failed: its last GET got no response the Transport
\* returns, and the Transport call is over
FetchFailed ==
    /\ pagerLog # <<>>
    /\ pagerLog[Len(pagerLog)].ev = "GET"
    /\ ~pagerLog[Len(pagerLog)].ok
    /\ gPc # "get"

\* the page whose fetch failed
FailedPage == pagerLog[Len(pagerLog)].page

\* a step that ends a failed Transport call makes the generator raise that
\* call's error, and a generator that raised does nothing more
FailurePropagates ==
    /\ (gPc = "get" /\ tPc = "raised" /\ gPc' # "get")
            => (gPc' = "raised" /\ gResult' = tResult /\ pagerLog' = pagerLog)
    /\ (gPc = "raised") => UNCHANGED pvars

\* C21: when the fetch of page k fails, the generator has yielded exactly the
\* items of the pages 1..k-1, it ends by raising the error of the Transport
\* (it does not finish as if the listing were complete), and it requests no
\* page after k, neither before nor after the failure.
C21_FetchFailureEndsWithError ==
    /\ [](FetchFailed =>
            /\ gPc = "raised"
            /\ gResult # None
            /\ gResult.type \in {"RequestException", "RetryError", "AppCenterHTTPException",
                                 "AppCenterDecodedHTTPException"}
            /\ FailedPage = page
            /\ Yielded = ItemsUpTo(FailedPage - 1)
            /\ \A q \in 1..(FailedPage - 1) : chain[q].errorGroups # None
            /\ \A i \in DOMAIN PagesRequested : PagesRequested[i] <= FailedPage)
    /\ [][FailurePropagates]_vars

\* the GET of page 2 failed after the two items of page 1 were handed over
C21_Witness ==
    /\ FetchFailed
    /\ gPc = "raised"
    /\ FailedPage = 2
    /\ Yielded = <<<<1, 1>>, <<1, 2>>>>

----------------------------------------------------------------------------
(* Claims about the repair of a nextLink (SpecPolish)                      *)

\* the nextLink the generator followed, and the link it made of it
GivenLink == error_groups.nextLink.value
PolishedLink == Tail(request_url)

\* where `old` first occurs in a text it occurs in
First(text, old) ==
    CHOOSE i \in 1..Len(text) :
        StartsAt(text, old, i) /\ \A h \in 1..(i - 1) : ~StartsAt(text, old, h)

\* the text with the n tokens at place i replaced by `new`
Splice(text, i, n, new) ==
    SubSeq(text, 1, i - 1) \o new \o SubSeq(text, i + n, Len(text))

DoubleSlash == <<"/", "/">>
SlashApi == <<"/", "api">>

\* the link asks for the first correction
NeedsOrgApp(link) == ~In(OrgApp(org_name, app_name), link) /\ In(DoubleSlash, link)

\* C22: a link that lacks the org/app segment and contains "//" comes out
\* as the original with its first "//", and only that, replaced by
\* "/{org}/{app}/"; a link that contains "/api" comes out with the first
\* "/api" of the original, and only that, removed; a link that asks for both
\* comes out with both changes made to the original and nothing else.
C22_PolishedAsClaimed ==
    (gPc = "fetch") =>
        LET link == GivenLink
            segment == <<"/", org_name, "/", app_name, "/">>
        IN  /\ (NeedsOrgApp(link) /\ ~In(SlashApi, link)) =>
                    PolishedLink = Splice(link, First(link, DoubleSlash), 2, segment)
            /\ (In(SlashApi, link) /\ ~NeedsOrgApp(link)) =>
                    PolishedLink = Splice(link, First(link, SlashApi), 2, <<>>)
            /\ (NeedsOrgApp(link) /\ In(SlashApi, link)) =>
                    LET s == First(link, DoubleSlash)
                        a == First(link, SlashApi)
                    IN  /\ a < s =>
                                PolishedLink = Splice(Splice(link, s, 2, segment), a, 2, <<>>)
                        /\ a > s + 1 =>
                                PolishedLink = Splice(Splice(link, a, 2, <<>>), s, 2, segment)

\* the same, for an organization and an app whose names hold no "api"
PolishedForOtherNames ==
    (org_name # "api" /\ app_name # "api") => C22_PolishedAsClaimed

----------------------------------------------------------------------------
(* Claims about the bodies of the requests (SpecRelease)                   *)

\* the fields of an object that are set
SetFields(object) == {f \in DOMAIN object : object[f] # None}

\* the key a field is written under
WireName(field) == IF field = "identifier" THEN "id" ELSE field

\* a dict holds exactly the set fields of a flat object, each with its value
FlatBody(dict, object) ==
    /\ DOMAIN dict = {WireName(f) : f \in SetFields(object)}
    /\ \A f \in SetFields(object) : dict[WireName(f)] = object[f].value

\* C23: every PATCH of update_release carries a body whose keys are exactly
\* the fields of the ReleaseUpdateRequest that are set (no unset field is
\* there, as null or as an empty value), each set field with its value; the
\* same holds inside it for the BuildInfo and for every DestinationId.
C23_OnlySetFieldsSerialized ==
    \A i \in DOMAIN tSent :
        (pc = "update_release") =>
            LET request == release_update_request
                body == tSent[i].body.value
            IN  /\ tSent[i].body # None
                /\ DOMAIN body = SetFields(request)
                /\ \A f \in SetFields(request) \ {"destinations", "build"} :
                        body[f] = request[f].value
                /\ request.build # None => FlatBody(body.build, request.build.value)
                /\ request.destinations # None =>
                        /\ DOMAIN body.destinations = DOMAIN request.destinations.value
                        /\ \A d \in DOMAIN body.destinations :
                                FlatBody(body.destinations[d], request.destinations.value[d])

\* a request with empty notes, a build with only its commit hash and one
\* destination named by its id alone has been sent
C23_Witness ==
    /\ pc = "update_release"
    /\ tSent # <<>>
    /\ release_update_request =
            ReleaseUpdateRequest(Some(""), None,
                                 Some(<<[name |-> None, identifier |-> Some("group-id")]>>),
                                 Some(BuildInfo(None, Some("hash"), None)), None)
    /\ DOMAIN tSent[1].body.value = {"release_notes", "destinations", "build"}
    /\ tSent[1].body.value.release_notes = ""
    /\ DOMAIN tSent[1].body.value.build = {"commit_hash"}
    /\ DOMAIN tSent[1].body.value.destinations[1] = {"id"}

----------------------------------------------------------------------------
(* Claims about the metadata request (SpecMetadata)                        *)

\* the extension of a file name: what stands after its last ".", when that
\* "." does not belong to the dots the name begins with
Extension(name) ==
    IF /\ Len(name) >= 3
       /\ name[Len(name)] # "."
       /\ name[Len(name) - 1] = "."
       /\ \E h \in 1..(Len(name) - 2) : name[h] # "."
    THEN name[Len(name)] ELSE ""

\* the keys of the MIME table, as the specification lists them
TableKeys ==
    {"apk", "aab", "msi", "plist", "aetx", "cer", "xap", "appx", "appxbundle", "appxupload",
     "appxsym", "msix", "msixbundle", "msixupload", "msixsym"}

\* C24: every request of set_upload_metadata carries file_name and
\* file_size; it carries content_type exactly when the extension of the file
\* name is a key of the MIME table, and then with the table's value; for any
\* other extension, or none, there is no content_type (no default such as
\* application/octet-stream).
C24_ContentTypeOnlyForKnownExtensions ==
    \A i \in DOMAIN tSent :
        (pc = "set_upload_metadata") =>
            LET query == tSent[i].query IN
            /\ "file_name" \in DOMAIN query /\ query.file_name = file_name
            /\ "file_size" \in DOMAIN query /\ query.file_size = getsize
            /\ ("content_type" \in DOMAIN query) <=> (Extension(file_name) \in TableKeys)
            /\ "content_type" \in DOMAIN query =>
                    /\ query.content_type = MIME_TYPES[Extension(file_name)]
                    /\ query.content_type # "application/octet-stream"
            /\ DOMAIN query \subseteq {"file_name", "file_size", "content_type", "token"}

\* the request for app.zip has been sent, without a content_type
C24_Witness ==
    /\ pc = "set_upload_metadata"
    /\ file_name = <<"app", ".", "zip">>
    /\ path = "file"
    /\ tSent # <<>>
    /\ DOMAIN tSent[1].query = {"file_name", "file_size", "token"}
    /\ tSent[1].query.file_size = 3

----------------------------------------------------------------------------
(* Claims about the headers of the requests (SpecTransport)                *)

\* the request carries the client's token
CarriesToken(request) ==
    /\ "X-API-Token" \in DOMAIN request.headers
    /\ request.headers["X-API-Token"] = token

\* C25 as stated: every HTTP request of get, patch, post, post_files, delete
\* and azure_blob_upload carries the header X-API-Token with the token the
\* client was made with.
C25_AsStated == \A i \in DOMAIN tSent : CarriesToken(tSent[i])

\* C25, corrected: every HTTP request of get, patch, post, post_files and
\* delete carries the header X-API-Token with the token the client was made
\* with, at every attempt; the PUT of azure_blob_upload is made outside the
\* session and carries Content-Type and x-ms-blob-type only, not the token.
C25_TokenOnSessionRequests ==
    \A i \in DOMAIN tSent :
        IF tMethod = "azure_blob_upload"
        THEN /\ DOMAIN tSent[i].headers = {"Content-Type", "x-ms-blob-type"}
             /\ tSent[i].method = "PUT"
        ELSE CarriesToken(tSent[i])

\* a patch of the client made with the second token, at its third request
C25_Witness ==
    /\ tMethod = "patch"
    /\ token = "token-2"
    /\ Len(tSent) = 3
    /\ tSent[3].headers["X-API-Token"] = "token-2"
    /\ tSent[3].headers["Content-Type"] = "application/json"

----------------------------------------------------------------------------
(* Claims about the length of the wait (SpecWaitLive)                      *)

Waiting == pc = "_wait_for_upload"

\* the status resource reports uploadStarted and uploadFinished only
OnlyNonTerminal == statuses \subseteq {"uploadStarted", "uploadFinished"}

\* a step of a waiter that is told to wait on leaves it waiting
StaysWaiting == (Waiting /\ OnlyNonTerminal) => Waiting'

\* C26: _wait_for_upload has no cap of its own.  With a status resource that
\* reports uploadStarted and uploadFinished only, a waiter never ends and
\* polls again and again, each time after a sleep of 2 seconds; with one
\* that reports another status in the end, the waiter ends, by returning or
\* by raising.
C26_WaitsAsLongAsItTakes ==
    /\ [][StaysWaiting]_vars
    /\ (Waiting /\ OnlyNonTerminal) ~> (tPc = "request")
    /\ (Waiting /\ OnlyNonTerminal) ~> sleeping
    /\ (Waiting /\ ~OnlyNonTerminal) ~> ~Waiting
    /\ [](Waiting => \A i \in DOMAIN sleeps : sleeps[i] = 2)
    /\ [](Waiting /\ tPc # "idle" => ~sleeping)

\* a waiter that has slept more often than the model counts polls once more
C26_Witness ==
    /\ Waiting
    /\ OnlyNonTerminal
    /\ Len(sleeps) = MaxCount
    /\ tPc = "request"

----------------------------------------------------------------------------
(* Claims about upload_and_release (SpecDistribute)                        *)

\* a request to release to the group, or for the details, has been issued
Distributed == \E i \in DOMAIN opsLog : opsLog[i] \in DistributeSteps

\* upload_build has returned a release id
HasReleaseId == ~result.failed /\ result.value = "release-id"

\* the step in which upload_and_release takes the result of upload_build
AfterUploadBuild ==
    (pc = "done" /\ pc' # "done") =>
        IF HasReleaseId
        THEN pc' = "release" /\ result' = result
        ELSE /\ pc' = "ended"
             /\ result'.failed
             /\ result.failed => result' = result
             /\ ~result.failed => result'.value.text = "Did not get release ID after upload"
             /\ opsLog' = opsLog

\* C27: upload_and_release posts to releases/{id}/groups, and asks for the
\* release details, only after upload_build has returned a release id that
\* is not None.  When upload_build raises or returns None, upload_and_release
\* raises (the exception of upload_build, or "Did not get release ID after
\* upload") and issues neither request.
C27_DistributesOnlyWithReleaseId ==
    /\ [](pc \in {"idle", "done"} \cup RetrySteps
                \cup {"_wait_for_upload", "first_pass", "retry_pass"} => ~Distributed)
    /\ [](pc \in DistributeSteps =>
            /\ HasReleaseId
            /\ upload_end_response.release_distinct_id = "release-id"
            /\ "update_release" \in stepsDone)
    /\ []((pc = "ended" /\ ~Distributed) => result.failed)
    /\ [](\A i \in DOMAIN opsLog :
                opsLog[i] = "release_details" =>
                    (i > 1 /\ opsLog[i - 1] = "release" /\ "release" \in stepsDone))
    /\ [][AfterUploadBuild]_vars

\* upload_build returned None after all its requests: upload_and_release
\* has raised, and has not distributed
C27_Witness ==
    /\ pc = "ended"
    /\ result.failed
    /\ result.value.type = "Exception"
    /\ result.value.text = "Did not get release ID after upload"
    /\ "update_release" \in stepsDone
    /\ ~Distributed

\* the first loop of upload_binary still has a chunk to take, or is uploading one
InFirstPass ==
    \/ pc = "first_pass"
    \/ pc = "_upload_chunk" /\ current # None /\ current.pass = "first"

\* every chunk of the chunk list has had a POST of the first pass answered
AllAttempted == \A k \in ChunkSet : served[k].first # {}

\* the entry direct_upload_chunk appends for the chunk in hand
QueuedEntry ==
    [chunk_number |-> current.chunk_number, attempts |-> 0, chunk |-> current.chunk]

\* the step in which a chunk is given up by the first pass
FailsInFirstPass == firstFailed' # firstFailed

\* the step in which the first loop goes on from the loop head
LeavesLoopHead == pc = "first_pass" /\ pc' # "first_pass"

FirstPassGoesOn ==
    /\ FailsInFirstPass =>
            /\ pc' = "first_pass"
            /\ ubResult' = "none"
            /\ unhandled_chunks' = Append(unhandled_chunks, QueuedEntry)
            /\ chunk_numbers' = chunk_numbers
    /\ (LeavesLoopHead /\ chunk_numbers # <<>>) =>
            /\ pc' = "_upload_chunk"
            /\ current'.pass = "first"
            /\ current'.chunk_number = Head(chunk_numbers)
            /\ unhandled_chunks' = unhandled_chunks
    /\ (LeavesLoopHead /\ chunk_numbers = <<>>) => (pc' = "retry_pass" /\ AllAttempted)

RetryAfterFirstPass ==
    /\ InFirstPass => ubResult = "none"
    /\ \A k \in firstFailed : served[k].first = {"fail"} /\ posts[k] >= 3
    /\ (current # None /\ current.pass = "retry") => (chunk_numbers = <<>> /\ AllAttempted)
    /\ (\E k \in ChunkNumbers : retryCalls[k] > 0) => (chunk_numbers = <<>> /\ AllAttempted)

\* C28: a chunk whose 3 attempts all fail in the first pass does not end
\* upload_binary: it is appended to the retry queue (attempts 0, its own bytes)
\* and the first loop goes on with the next chunk of the chunk list, whatever
\* the queue holds, until it has attempted every chunk; no chunk is taken from
\* the retry queue before that.
C28_FailedChunkQueuedFirstPassGoesOn == []RetryAfterFirstPass /\ [][FirstPassGoesOn]_vars

\* chunk 1 was given up by the first pass, chunk 2 was still attempted, and
\* only then was chunk 1 taken from the retry queue
C28_Witness ==
    /\ ChunkSet = {1, 2}
    /\ firstFailed = {1}
    /\ served[2].first # {}
    /\ retryCalls[1] = 1
    /\ current # None /\ current.pass = "retry" /\ current.chunk_number = 1

\* the n-th chunk_size slice of the file (the last one may be shorter, the
\* ones past the end of the file are empty)
Slice(n) ==
    LET size == upload_metadata_response.chunk_size
        last == Min(n * size, Len(FileBytes))
    IN  SubSeq(FileBytes, (n - 1) * size + 1, last)

\* a chunk POST of the first pass is on its way or answered
PostingInFirstPass ==
    /\ pc = "_upload_chunk"
    /\ current # None
    /\ current.pass = "first"
    /\ tSent # <<>>

\* the chunks the first pass attempted before the one in hand
AttemptedBefore ==
    {k \in ChunkNumbers : k # current.chunk_number /\ served[k].first # {}}

\* how many chunks the first loop has taken from the chunk list
Taken == Len(upload_metadata_response.chunk_list) - Len(chunk_numbers)

\* C29: every chunk POST of the first pass carries a chunk number larger than
\* those the first pass posted before it, and with number n the n-th
\* chunk_size slice of the file, for every chunk list declared.
C29_AscendingNumbersNthSlice ==
    PostingInFirstPass =>
        \A i \in DOMAIN tSent :
            LET n == tSent[i].query.block_number IN
            /\ \A k \in AttemptedBefore : k < n
            /\ tSent[i].body = Some(Slice(n))

\* what the first loop does: its k-th chunk POST carries the k-th number of
\* the declared chunk list and the k-th chunk_size slice of the file, which
\* is the numbering of C29 when the list declared is 1, 2, ..., n
FirstPassFollowsChunkList ==
    PostingInFirstPass =>
        \A i \in DOMAIN tSent :
            /\ tSent[i].query.block_number = upload_metadata_response.chunk_list[Taken]
            /\ tSent[i].body = Some(Slice(Taken))
            /\ upload_metadata_response.chunk_list \in {ChunkList(n) : n \in 0..MaxChunks}
                    => /\ tSent[i].query.block_number = Taken
                       /\ \A k \in AttemptedBefore : k < Taken

\* the step in which the second loop takes a chunk from the retry queue
TakesFromQueue == pc = "retry_pass" /\ pc' = "_upload_chunk"

\* the step in which a chunk upload is given up, in either pass
ChunkFails == Len(unhandled_chunks') > Len(unhandled_chunks)

\* the chunk numbers waiting in the retry queue, front first
QueuedNumbers(queue) == [i \in DOMAIN queue |-> queue[i].chunk_number]

RetryQueueFifo ==
    /\ TakesFromQueue =>
            /\ unhandled_chunks # <<>>
            /\ current'.pass = "retry"
            /\ current'.chunk_number = Head(unhandled_chunks).chunk_number
            /\ current'.chunk = Head(unhandled_chunks).chunk
            /\ unhandled_chunks' = Tail(unhandled_chunks)
    /\ ChunkFails =>
            /\ unhandled_chunks' = Append(unhandled_chunks, QueuedEntry)
            /\ QueuedNumbers(unhandled_chunks') = Append(QueuedNumbers(unhandled_chunks), current.chunk_number)
    /\ (~TakesFromQueue /\ ~ChunkFails) =>
            \/ unhandled_chunks' = unhandled_chunks
            \/ unhandled_chunks # <<>> /\ unhandled_chunks' = Tail(unhandled_chunks)

\* C30: the retry queue is first in, first out: a failed chunk, of the first
\* pass or of the retry pass, is appended at the back; the chunk retried is
\* always the one at the front, which leaves the queue; no other step changes
\* the order of the queue.
C30_RetryQueueIsFifo == [][RetryQueueFifo]_vars

\* chunks 1 and 2 failed in the first pass in this order, chunk 1 was retried
\* first and failed again: it waits behind chunk 2
C30_Witness ==
    /\ upload_metadata_response # None
    /\ upload_metadata_response.chunk_list = <<1, 2>>
    /\ firstFailed = {1, 2}
    /\ retryCalls[1] = 1
    /\ retryCalls[2] = 0
    /\ pc = "retry_pass"
    /\ QueuedNumbers(unhandled_chunks) = <<2, 1>>

\* the last poll of the wait read the status error
ReadError == waitLog # <<>> /\ waitLog[Len(waitLog)] = "error"

\* C31: when the polled status is error, _wait_for_upload raises the
\* processing-error exception, an Exception whose message begins 'An error
\* occurred when waiting for binary: ' and goes on with the error detail of
\* the server or '?'.
C31_ErrorStatusRaisesProcessingError ==
    ReadError =>
        /\ pc = "done"
        /\ result.failed
        /\ result.value.type = "Exception"
        /\ result.value.text = "An error occurred when waiting for binary: "

\* what the code does on the status error: the wait ends at once, with the
\* AttributeError of response_data.get
ErrorStatusRaisesAttributeError ==
    ReadError => (pc = "done" /\ ~sleeping /\ result = Raised([type |-> "AttributeError", text |-> "get"]))

\* the text with the first occurrence of `old`, if there is one, replaced
FirstReplaced(text, old, new) ==
    IF In(old, text) THEN Splice(text, First(text, old), Len(old), new) ELSE text

OrgAppSegment == <<"/", org_name, "/", app_name, "/">>

\* C32, as stated: every link comes out with its first "//" replaced by
\* "/{org}/{app}/" and then its first "/api" removed, whatever it contains.
C32_AsStated ==
    (gPc = "fetch") =>
        PolishedLink = FirstReplaced(FirstReplaced(GivenLink, DoubleSlash, OrgAppSegment),
                                     SlashApi, <<>>)

\* C32, amended: the "/api" removal is applied to every link; the "//"
\* replacement is applied only to a link that does not contain "{org}/{app}":
\* a link that contains it keeps its "//" and only loses its first "/api".
C32_OnlyApiRemovalUnconditional ==
    (gPc = "fetch") =>
        LET link == GivenLink
            repaired == IF In(OrgApp(org_name, app_name), link) THEN link
                        ELSE FirstReplaced(link, DoubleSlash, OrgAppSegment)
        IN  /\ PolishedLink = FirstReplaced(repaired, SlashApi, <<>>)
            /\ In(SlashApi, repaired) => Len(PolishedLink) = Len(repaired) - 2
            /\ (In(OrgApp(org_name, app_name), link) /\ ~In(SlashApi, link)) => PolishedLink = link

\* a link with the org/app segment, a "//" and a "/api": the "//" is kept
C32_Witness ==
    /\ gPc = "fetch"
    /\ In(OrgApp(org_name, app_name), GivenLink)
    /\ In(DoubleSlash, GivenLink)
    /\ In(SlashApi, GivenLink)
    /\ In(DoubleSlash, PolishedLink)
    /\ Len(PolishedLink) = Len(GivenLink) - 2

\* the places of the log with an HTTP request of the given verb
RequestsAt(verb) ==
    {i \in DOMAIN annotationLog :
        annotationLog[i].ev = "request" /\ annotationLog[i].request.method = verb}

\* the places of the log where the group was read
GroupsAt == {i \in DOMAIN annotationLog : annotationLog[i].ev = "group"}

\* the state set_annotation was called with
GivenState == annotationLog[1].state

AnnotationReturned == aPc = "ended" /\ ~aResult.failed

\* C33: called with state None, set_annotation requests the error group with
\* GET, then sends PATCH with the state that GET returned and the annotation
\* given; called with a state, it sends no GET and PATCHes that state with
\* the annotation given. Every request goes to the url of the group.
C33_AnnotationKeepsState ==
    annotationLog # <<>> =>
        /\ \A i \in RequestsAt("GET") \cup RequestsAt("PATCH") :
                annotationLog[i].request.url = GroupUrl
        /\ RequestsAt("GET") \cup RequestsAt("PATCH") \cup GroupsAt = DOMAIN annotationLog \ {1}
        /\ GivenState = None =>
                /\ Cardinality(GroupsAt) <= 1
                /\ \A p \in RequestsAt("PATCH") :
                        /\ \E g \in GroupsAt :
                                /\ g < p
                                /\ RequestsAt("GET") # {}
                                /\ \A r \in RequestsAt("GET") : r < g
                                /\ annotationLog[p].request.body =
                                        Some([state |-> annotationLog[g].state,
                                              annotation |-> annotation])
                /\ AnnotationReturned => RequestsAt("PATCH") # {}
        /\ GivenState # None =>
                /\ RequestsAt("GET") = {}
                /\ GroupsAt = {}
                /\ \A p \in RequestsAt("PATCH") :
                        annotationLog[p].request.body =
                            Some([state |-> GivenState.value.value, annotation |-> annotation])
                /\ AnnotationReturned => RequestsAt("PATCH") # {}

\* a call without a state that read a closed group and patched it as closed
C33_Witness ==
    /\ AnnotationReturned
    /\ Len(annotationLog) = 4
    /\ GivenState = None
    /\ annotationLog[2].request.method = "GET"
    /\ annotationLog[3] = [ev |-> "group", state |-> "Closed"]
    /\ annotationLog[4].request.method = "PATCH"
    /\ annotationLog[4].request.body.value.state = "Closed"

StepFailed == pc = "done" /\ result # None /\ result.failed /\ stepLog # <<>>

\* C35: a step of the upload that ends with an error after nothing but
\* connection failures has issued 3 x 3 = 9 HTTP requests, and after nothing
\* but HTTP error statuses exactly 3.
C35_LayersMultiply ==
    StepFailed =>
        /\ (\A i \in DOMAIN stepLog : IsConnectionFailure(stepLog[i])) => Len(stepLog) = 9
        /\ (\A i \in DOMAIN stepLog : IsHttpError(stepLog[i])) => Len(stepLog) = 3

\* the same, told apart by what the Transport method retries: 9 requests
\* after connection failures and after error statuses whose body holds a
\* connection-failure signature, 3 after error statuses without one
LayersMultiplyBySignature ==
    StepFailed =>
        /\ (\A i \in DOMAIN stepLog : IsConnectionFailure(stepLog[i])) => Len(stepLog) = 9
        /\ (\A i \in DOMAIN stepLog : stepLog[i] = AnswerErrorTimedOut) => Len(stepLog) = 9
        /\ (\A i \in DOMAIN stepLog : stepLog[i] = AnswerError) => Len(stepLog) = 3

\* what attempt i of the call came to
AttemptOutcome(i) == MethodBody(tMethod, tUrl, tHist[i])

\* attempt i raised a typed HTTP error
RaisedHttpError(i) ==
    AttemptOutcome(i).failed /\ AttemptOutcome(i).value.type \in HttpErrorTypes

\* a connection-failure signature stands in the url of the call or in the
\* body text of the answer to attempt i
SignatureInText(i) ==
    \/ tUrl = "https://h/Connection aborted."
    \/ \E c \in DOMAIN exception_checks : tHist[i].text = exception_checks[c]

\* C36: an attempt that raised a typed HTTP error is retried when the url of
\* the request or the body text of the response holds a connection-failure
\* signature, like a connection failure: the call goes on to a next attempt,
\* and after the third raises RetryError; an HTTP error without such text ends
\* the call at once, raised as it is.
C36_RetryDecidedByText ==
    \A i \in DOMAIN tHist :
        RaisedHttpError(i) =>
            IF SignatureInText(i)
            THEN /\ i < stop_after_attempt => (i < Len(tHist) \/ tPc \in {"wait", "request"})
                 /\ i = stop_after_attempt =>
                        (tPc = "raised" /\ tResult = RetryError(AttemptOutcome(i)))
            ELSE /\ i = Len(tHist)
                 /\ tPc = "raised"
                 /\ tResult = AttemptOutcome(i).value

\* a post answered 500 three times, the body holding a signature: retried
\* to the third attempt
C36_Witness ==
    /\ tPc = "raised"
    /\ tMethod = "post"
    /\ tUrl = "https://api.appcenter.ms/v0.1/apps/o/a"
    /\ tAttempt = 3
    /\ tWaits = <<10, 10>>
    /\ \A i \in DOMAIN tHist : IsHttpError(tHist[i]) /\ tHist[i].text = "Operation timed out"
    /\ tResult.type = "RetryError"

\* the step in which _upload_chunk returns an acknowledgment with error=true
ReturnsFlagged ==
    /\ pc = "_upload_chunk"
    /\ tPc = "returned"
    /\ Ok(tResult)
    /\ Decodes(tResult)
    /\ tResult.text = ErrorFlagText
    /\ pc' # pc

FlaggedCountsAsUploaded ==
    ReturnsFlagged =>
        /\ unhandled_chunks' = unhandled_chunks
        /\ firstFailed' = firstFailed
        /\ current.chunk_number \in uploaded'
        /\ pc' = IF current.pass = "first" THEN "first_pass" ELSE "retry_pass"

\* every answer of the run is an acknowledgment with error=true
OnlyFlagged == answers = {AnswerChunkError}

FlaggedUploadSucceeds ==
    OnlyFlagged =>
        /\ unhandled_chunks = <<>>
        /\ firstFailed = {}
        /\ \A k \in ChunkNumbers : retryCalls[k] = 0 /\ posts[k] <= 1
        /\ ubResult \in {"none", "True"}
        /\ pc = "done" => (ubResult = "True" /\ finishCalls = 1 /\ ChunkSet \subseteq uploaded)

\* C37: a chunk whose POST is acknowledged with a decoded response counts as
\* uploaded though the response's error flag is set: it is not put on the
\* retry queue and the loop goes on; an upload whose chunks are all
\* acknowledged with error=true POSTs each chunk once, calls mark finished
\* and returns True.
C37_ErrorFlagIgnored == []FlaggedUploadSucceeds /\ [][FlaggedCountsAsUploaded]_vars

\* two chunks, both acknowledged with error=true, and upload_binary returned True
C37_Witness ==
    /\ OnlyFlagged
    /\ ubResult = "True"
    /\ ChunkSet = {1, 2}
    /\ uploaded = {1, 2}
    /\ posts = [k \in ChunkNumbers |-> IF k \in {1, 2} THEN 1 ELSE 0]

\* the place of chunk number k in the chunk list the server declared
ListIndex(k) ==
    CHOOSE i \in 1..Len(upload_metadata_response.chunk_list) :
        upload_metadata_response.chunk_list[i] = k

\* the bytes chunk k was read with: the slice of its place in the chunk list
FirstBytes(k) == Slice(ListIndex(k))

\* the chunk in hand, every chunk queued and every request of the running POST
\* pair the chunk number with the bytes of its first attempt; the file stands
\* after the slices the first loop took
PairingKept ==
    /\ current # None => current.chunk = FirstBytes(current.chunk_number)
    /\ \A i \in 1..Len(unhandled_chunks) :
          unhandled_chunks[i].chunk = FirstBytes(unhandled_chunks[i].chunk_number)
    /\ pc = "_upload_chunk" =>
          \A i \in 1..Len(tSent) :
              /\ tSent[i].method = "POST"
              /\ tSent[i].query["block_number"] = current.chunk_number
              /\ tSent[i].body = Some(current.chunk)
    /\ binary_file # None =>
          binary_file.position =
              Min(Taken * upload_metadata_response.chunk_size, Len(FileBytes))

\* the file is read by the first loop only, one slice further at each take,
\* and the second loop takes number and bytes from the head of the queue
SlicesReadOnce ==
    /\ (binary_file # None /\ binary_file' # None /\ binary_file' # binary_file) =>
          /\ pc = "first_pass"
          /\ Taken' = Taken + 1
          /\ binary_file'.position >= binary_file.position
          /\ current'.chunk = Slice(Taken')
          /\ current'.chunk_number = Head(chunk_numbers)
    /\ current' # current =>
          \/ pc = "first_pass" /\ chunk_numbers' = Tail(chunk_numbers)
          \/ /\ pc = "retry_pass"
             /\ current'.chunk_number = Head(unhandled_chunks).chunk_number
             /\ current'.chunk = Head(unhandled_chunks).chunk
             /\ UNCHANGED binary_file

\* C38: the first loop reads the file slice after slice, each slice once; the
\* chunk number it pairs with a slice stays with those bytes: every POST of a
\* chunk, in any of its 3 attempts and in any retry from the queue, carries
\* the chunk number and the bytes of the chunk's first attempt.
C38_SlicesReadOncePairingKept == []PairingKept /\ [][SlicesReadOnce]_vars

\* the second chunk of the list is POSTed again from the retry queue with the
\* second slice of the file
C38_Witness ==
    /\ pc = "_upload_chunk"
    /\ current.pass = "retry"
    /\ Len(upload_metadata_response.chunk_list) = 2
    /\ current.chunk_number = upload_metadata_response.chunk_list[2]
    /\ current.chunk = Slice(2)
    /\ current.chunk # Slice(1)
    /\ Len(tSent) = 2
    /\ posts[current.chunk_number] >= 4

====
